---------------------------- MODULE Spec2Model ----------------------------
(***************************************************************************)
(* Model of pxrun's provisioning core (src/services/proxmox.py):           *)
(*   - ProxmoxService.wait_for_task: the task polling loop;                *)
(*   - ProxmoxService.provision_container_via_exec: the fixed sequence of  *)
(*     pct-exec commands run inside a freshly created container.           *)
(* Each routine has its own specification (SpecWait, SpecProv); the        *)
(* variables of the other routine stay at their initial value.             *)
(***************************************************************************)
EXTENDS Integers, Sequences, FiniteSets, TLC

VARIABLES
    \* ---- wait_for_task ----
    w_pc,        \* "idle" | "loop" | "poll" | "sleep" | "done"
    timeout,     \* the timeout argument (seconds)
    now,         \* time.time(), in seconds
    start_time,  \* time.time() when the call started
    task,        \* the cluster task's real status (the server's side)
    polls,       \* sequence of what node.tasks(id).status.get() gave, oldest first
    polltime,    \* total seconds spent inside status.get() calls
    w_result,    \* <<>> until the call returns, then the tuple <<success, message>>
    \* ---- provision_container_via_exec ----
    p_pc,        \* "idle" | "update" | "packages" | "docker" | "tailscale" | "ts_cmds" | "done"
    environ,     \* os.environ, restricted to the variables a key can name
    config,      \* the provisioning_config argument
    issued,      \* the exec_container_command calls so far: [block, command, ok]
    idx,         \* index of the next command in the current `commands` list
    auth_key,    \* the local auth_key of the Tailscale block ("" until set)
    p_result,    \* the returned boolean, once p_pc = "done"
    \* ---- exec_container_command ----
    x_pc,           \* "idle" | "connect" | "exec" | "wait" | "read" | "close" | "done"
    x_args,         \* the call's arguments <<vmid, command>> (<<>> before the call)
    pct_command,    \* the command line given to ssh.exec_command (<<>> until built)
    ssh,            \* the SSHClient's connection: "none" | "open" | "closed"
    exit_code,      \* stdout.channel.recv_exit_status() (-1 until known)
    output,         \* stdout.read().decode('utf-8')
    error,          \* stderr.read().decode('utf-8')
    raised,         \* str(e) of the exception caught by the call ("" if none)
    paramiko_level, \* level of logging.getLogger('paramiko')
    original_level, \* the level saved on entry
    x_result,       \* <<>> until the call returns, then <<success, output>>
    \* ---- the create command, from the node selection on ----
    c_pc,        \* "idle" | "select" | "dryrun" | "confirm" | "create" | "wait" | "start" | "gate" | "ip"
                 \* | "connect" | "provision" | "disconnect" | "fallback" | "done"
    c_opts,      \* the flags of the run (NoOpts before the call)
    c_calls,     \* the calls made on the cluster and on the provisioner, in order
    container_ip,\* the address used for provisioning ("" for None)
    c_auth,      \* which SSHProvisioner is in use: "none" | "key" | "password"
    c_session,   \* that provisioner's SSH session: "none" | "open" | "closed"
    c_exit,      \* how the command ended: "" | "return" | "exit1" | "raise"
    \* ---- TailscaleAPIClient and the registry it talks to ----
    clock,            \* time.time(), in seconds
    registry,         \* the devices the Tailscale API holds
    nodes_cache,      \* self._nodes_cache: {} for None, else {the listing}
    cache_timestamp,  \* self._cache_timestamp: {} for None, else {the time}
    k_last,           \* the client's last call and its outcome
    cached_before_delete,   \* the cached listing predates a successful delete
    cached_before_mutation, \* the cached listing predates a mutating call
    \* ---- TailscaleNodeManager.find_container_node ----
    f_pc,        \* "idle" | "done"
    f_nodes,     \* the listing list_nodes() returns during the call
    f_hostname,  \* container_hostname
    f_vmid,      \* vmid: {} for None, else {the id}
    f_result,    \* the node returned: {} for None, else {the node}
    \* ---- TailscaleNodeManager.remove_container_node ----
    r_pc,        \* "idle" | "found" | "delete" | "done"
    r_force,     \* the force argument
    r_calls,     \* the prompts shown and delete calls issued: <<what, id, outcome>>
    r_result,    \* the value returned: {} before the return, else {TRUE} or {FALSE}
    r_raised,     \* the call ended by raising
    \* ---- the destroy command ----
    d_pc,        \* the block of the command that runs next, or "idle" | "done"
    d_opts,      \* the flags and the container's status (NoDestroyOpts before the call)
    d_calls,     \* the calls made on the cluster and on the registry, in order
    d_remove,    \* how remove_container_node ended: "none" | "True" | "False" | "raised"
    d_declined,  \* the operator answered no to a "continue anyway?" prompt
    d_exit,       \* how the command ended: "" | "return" | "exit0" | "exit1" | "raise"
    \* ---- ProxmoxService.get_next_vmid ----
    g_pc,        \* "idle" | "fallback" | "done"
    cluster,     \* the containers that exist: node name -> set of vmids
    g_min_vmid,  \* the min_vmid argument
    g_listed,    \* the vmids list_containers() returned to the fallback
    g_result,    \* the vmid returned (0 before the return)
    g_raised,     \* the call ended by raising
    \* ---- NodeSelector.select_node as the create command calls it ----
    s_requirement,  \* the requirements built from the options
    s_candidates,   \* the cluster nodes given to NodeSelector(nodes)
    s_selected,      \* selected_node: {} for None, else {the candidate}
    \* ---- ProxmoxService.configure_lxc_for_tailscale ----
    l_pc,        \* "idle" | "check" | "append" | "done"
    l_conf,      \* the lines of /etc/pve/lxc/{vmid}.conf, in order
    l_before,    \* the lines of the file when the current call was made
    l_idx,       \* the position of the for loop in config_lines
    l_result,    \* {} before the return, else {the boolean returned}
    l_error,     \* the current call caught an exception
    l_count,      \* the calls made so far
    \* ---- SSHProvisioner.connect as the create command configures it ----
    h_pc,        \* "idle" | "attempt" | "sleep" | "done"
    h_config,    \* the SSHConfig: retry_attempts and retry_delay
    h_wait,      \* the wait_for_ssh argument
    h_reachable, \* whether the address ever answers
    h_attempts,  \* the connection attempts made so far
    h_sleeps,    \* the delays slept so far
    h_elapsed,   \* the seconds since the call
    h_result     \* {} before the return, else {the boolean returned}

wvars == <<w_pc, timeout, now, start_time, task, polls, polltime, w_result>>
pvars == <<p_pc, environ, config, issued, idx, auth_key, p_result>>
xvars == <<x_pc, x_args, pct_command, ssh, exit_code, output, error, raised,
           paramiko_level, original_level, x_result>>
cvars == <<c_pc, c_opts, c_calls, container_ip, c_auth, c_session, c_exit>>
kvars == <<clock, registry, nodes_cache, cache_timestamp, k_last,
           cached_before_delete, cached_before_mutation>>
fvars == <<f_pc, f_nodes, f_hostname, f_vmid, f_result>>
rvars == <<r_pc, r_force, r_calls, r_result, r_raised>>
dvars == <<d_pc, d_opts, d_calls, d_remove, d_declined, d_exit>>
gvars == <<g_pc, cluster, g_min_vmid, g_listed, g_result, g_raised>>
svars == <<s_requirement, s_candidates, s_selected>>
lvars == <<l_pc, l_conf, l_before, l_idx, l_result, l_error, l_count>>
hvars == <<h_pc, h_config, h_wait, h_reachable, h_attempts, h_sleeps, h_elapsed, h_result>>
vars  == <<wvars, pvars, xvars, cvars, kvars, fvars, rvars, dvars, gvars, svars, lvars, hvars>>

\* What the steps of one routine leave alone: the other routines' variables.
notW == <<pvars, xvars, cvars, kvars, fvars, rvars, dvars, gvars, svars, lvars, hvars>>
notP == <<wvars, xvars, cvars, kvars, fvars, rvars, dvars, gvars, svars, lvars, hvars>>
notX == <<wvars, pvars, cvars, kvars, fvars, rvars, dvars, gvars, svars, lvars, hvars>>
notC == <<wvars, pvars, xvars, kvars, fvars, rvars, dvars, gvars, svars, lvars, hvars>>
notK == <<wvars, pvars, xvars, cvars, fvars, rvars, dvars, gvars, svars, lvars, hvars>>
notF == <<wvars, pvars, xvars, cvars, kvars, rvars, dvars, gvars, svars, lvars, hvars>>
notR == <<wvars, pvars, xvars, cvars, kvars, fvars, dvars, gvars, svars, lvars, hvars>>
notRKF == <<wvars, pvars, xvars, cvars, dvars, gvars, svars, lvars, hvars>>
notD == <<wvars, pvars, xvars, cvars, kvars, fvars, rvars, gvars, svars, lvars, hvars>>
notG == <<wvars, pvars, xvars, cvars, kvars, fvars, rvars, dvars, svars, lvars, hvars>>
notCS == <<wvars, pvars, xvars, kvars, fvars, rvars, dvars, gvars, lvars, hvars>>
notS == <<wvars, pvars, xvars, cvars, kvars, fvars, rvars, dvars, gvars, lvars, hvars>>
notL == <<wvars, pvars, xvars, cvars, kvars, fvars, rvars, dvars, gvars, svars, hvars>>
notH == <<wvars, pvars, xvars, cvars, kvars, fvars, rvars, dvars, gvars, svars, lvars>>

None == "None"

\* ------------------------------------------------------------------------
\* Bounds of the model
\* ------------------------------------------------------------------------
MaxTimeout     == 3   \* timeout arguments are 0..MaxTimeout
MaxPollLatency == 1   \* one status.get() takes 0..MaxPollLatency seconds
MaxPackages    == 1   \* packages lists have at most MaxPackages entries
MaxExitCode    == 2   \* remote exit codes are -1..MaxExitCode
MaxClock       == 125 \* the clock of the registry client stops at MaxClock
MaxNodes       == 2   \* a registry listing has at most MaxNodes entries
MaxCandidates  == 2   \* NodeSelector is given at most MaxCandidates nodes
MaxVmidSpan    == 2   \* container ids are min_vmid_default..min_vmid_default + MaxVmidSpan
MaxAttemptLatency == 1 \* one connection attempt takes 0..MaxAttemptLatency seconds
MaxConfigureCalls == 3 \* configure_lxc_for_tailscale is called at most MaxConfigureCalls times

\* ------------------------------------------------------------------------
\* wait_for_task
\* ------------------------------------------------------------------------
PollInterval == 1     \* time.sleep(1)

ExitStatuses == {"OK", "TASK ERROR", "WARNINGS: 1"}

\* What the server knows of the task: the dict status.get() would return.
\* A running task has no 'exitstatus' key; a stopped one normally has.
TaskStates ==
    {[status |-> "running", exitstatus |-> None]}
    \cup {[status |-> "stopped", exitstatus |-> e] : e \in ExitStatuses \cup {None}}

\* str(e) of the exceptions status.get() can end in.
ErrorTexts == {"Connection refused", "500 Internal Server Error"}

\* What one poll can give: the task's dict, or an exception.
Reply(t)      == [kind |-> "status", status |-> t.status, exitstatus |-> t.exitstatus]
ErrorReply(s) == [kind |-> "error", text |-> s]

\* status.get('exitstatus', 'Unknown error')
GetExitStatus(r) == IF r.exitstatus = None THEN "Unknown error" ELSE r.exitstatus

MsgSuccess    == <<"Task completed successfully">>

\* Mutant of MsgFailed: the message drops the exit status.
MsgFailedGeneric(es) == <<"Task failed: ", "Unknown error">>

MsgFailed(es) == <<"Task failed: ", es>>
MsgTimeout(n) == <<"Task timeout after ", n, " seconds">>
MsgError(s)   == <<s>>

Elapsed == now - start_time

\* Mutant of LoopGuard: the loop is left one second early.
LoopGuardEarly == Elapsed + 1 < timeout

\* while time.time() - start_time < timeout
LoopGuard == Elapsed < timeout

\* wait_for_task(node_name, task_id, timeout): entry, start_time = time.time()
WaitForTask(n) ==
    /\ w_pc = "idle"
    /\ timeout' = n
    /\ start_time' = now
    /\ w_pc' = "loop"
    /\ UNCHANGED <<now, task, polls, polltime, w_result, notW>>

\* The loop condition; on exit, the timeout return.
WaitLoop ==
    /\ w_pc = "loop"
    /\ IF LoopGuard
         THEN /\ w_pc' = "poll"
              /\ UNCHANGED w_result
         ELSE /\ w_pc' = "done"
              /\ w_result' = <<FALSE, MsgTimeout(timeout)>>
    /\ UNCHANGED <<timeout, now, start_time, task, polls, polltime, notW>>

\* Mutant of AfterError: the error is logged and the poll retried.
AfterErrorRetry(s) ==
    /\ w_pc' = "sleep"
    /\ UNCHANGED w_result

\* Where a poll that ended in an exception goes: return False, str(e).
AfterError(s) ==
    /\ w_pc' = "done"
    /\ w_result' = <<FALSE, MsgError(s)>>

\* Mutant of AfterStatus: any stopped task counts as a success.
AfterStatusAnyExit(r) ==
    IF r.status = "stopped"
      THEN /\ w_pc' = "done"
           /\ w_result' = <<TRUE, MsgSuccess>>
      ELSE /\ w_pc' = "sleep"
           /\ UNCHANGED w_result

\* Where a poll that gave a status dict goes.
AfterStatus(r) ==
    IF r.status = "stopped"
      THEN /\ w_pc' = "done"
           /\ w_result' = IF r.exitstatus = "OK"
                            THEN <<TRUE, MsgSuccess>>
                            ELSE <<FALSE, MsgFailed(GetExitStatus(r))>>
      ELSE /\ w_pc' = "sleep"
           /\ UNCHANGED w_result

\* status = node.tasks(task_id).status.get(), taking d seconds, and the
\* branches on its outcome.
WaitPoll ==
    /\ w_pc = "poll"
    /\ \E d \in 0..MaxPollLatency :
          /\ now' = now + d
          /\ polltime' = polltime + d
    /\ \/ /\ polls' = Append(polls, Reply(task))
          /\ AfterStatus(Reply(task))
       \/ \E s \in ErrorTexts :
             /\ polls' = Append(polls, ErrorReply(s))
             /\ AfterError(s)
    /\ UNCHANGED <<timeout, start_time, task, notW>>

\* Mutant of WaitSleep: the loop sleeps three seconds between polls.
WaitSleepLong ==
    /\ w_pc = "sleep"
    /\ now' = now + 3 * PollInterval
    /\ w_pc' = "loop"
    /\ UNCHANGED <<timeout, start_time, task, polls, polltime, w_result, notW>>

\* time.sleep(1)
WaitSleep ==
    /\ w_pc = "sleep"
    /\ now' = now + PollInterval
    /\ w_pc' = "loop"
    /\ UNCHANGED <<timeout, start_time, task, polls, polltime, w_result, notW>>

\* The cluster finishes the task (the server's side; not part of the client).
TaskStops ==
    /\ w_pc \in {"loop", "poll", "sleep"}
    /\ task.status = "running"
    /\ \E e \in ExitStatuses \cup {None} :
          task' = [status |-> "stopped", exitstatus |-> e]
    /\ UNCHANGED <<w_pc, timeout, now, start_time, polls, polltime, w_result, notW>>

WaitStep == WaitLoop \/ WaitPoll \/ WaitSleep

\* ------------------------------------------------------------------------
\* provision_container_via_exec
\* ------------------------------------------------------------------------
\* Strings the code takes apart (auth keys, variable names, values) are
\* sequences of characters.
StartsWith(s, pre) == Len(s) >= Len(pre) /\ SubSeq(s, 1, Len(pre)) = pre
EndsWith(s, suf)   == Len(s) >= Len(suf) /\ SubSeq(s, Len(s) - Len(suf) + 1, Len(s)) = suf

PackageNames == {"git", "htop"}
EnvNames     == {<<"V">>}                 \* variables of the process environment
EnvValues    == {<<>>, <<"s", "k">>}      \* a variable can be set to ""
AuthKeys     == { <<>>,                   \* auth_key: ""
                  <<"k">>,                \* a literal key
                  <<"$", "{", "V", "}">>, \* "${V}"
                  <<"$", "{", "V">> }     \* "${V": no closing brace

SeqsUpTo(S, n) == UNION {[1..k -> S] : k \in 0..n}

\* provisioning_config.tailscale is None ({}) or an object with an auth_key.
TailscaleConfigs == {{}} \cup {{[auth_key |-> k]} : k \in AuthKeys}

Configs ==
    [packages : SeqsUpTo(PackageNames, MaxPackages),
     docker : BOOLEAN,
     tailscale : TailscaleConfigs]

NoConfig == [packages |-> <<>>, docker |-> FALSE, tailscale |-> {}]

\* os.environ: a dict over some of the names.
Environs == UNION {[D -> EnvValues] : D \in SUBSET EnvNames}

\* os.environ.get(env_var, "")
EnvGet(env, v) == IF v \in DOMAIN env THEN env[v] ELSE <<>>

\* How one exec_container_command call can end: exit code 0, a non-zero exit
\* code, or an exception caught inside it (all but the first give success
\* False).
ExecOutcomes == {"exit0", "nonzero", "exception"}
ExecSuccess(o) == o = "exit0"

Command(d, c, a) == [desc |-> d, cmd |-> c, arg |-> a]

\* "apt-get update"
AptUpdate == Command("Update package lists", "apt-get update", <<>>)

\* bash -c 'DEBIAN_FRONTEND=noninteractive apt-get install -y {packages_str}';
\* packages_str is kept as the list of its words.
AptInstall(packages) ==
    Command("Install packages",
            "bash -c 'DEBIAN_FRONTEND=noninteractive apt-get install -y'", packages)

\* Mutant of DockerCommands: the packages are installed before the index of
\* the new repository is refreshed.
DockerCommandsInstallBeforeUpdate == <<
    Command("Install prerequisites",
            "bash -c 'DEBIAN_FRONTEND=noninteractive apt-get install -y ca-certificates curl'", <<>>),
    Command("Create keyrings directory", "install -m 0755 -d /etc/apt/keyrings", <<>>),
    Command("Download Docker GPG key",
            "curl -fsSL https://download.docker.com/linux/debian/gpg -o /etc/apt/keyrings/docker.asc", <<>>),
    Command("Set GPG key permissions", "chmod a+r /etc/apt/keyrings/docker.asc", <<>>),
    Command("Add Docker repository", "bash -c '... | tee /etc/apt/sources.list.d/docker.list'", <<>>),
    Command("Install Docker",
            "bash -c 'DEBIAN_FRONTEND=noninteractive apt-get install -y docker-ce ...'", <<>>),
    Command("Update package lists", "apt-get update", <<>>) >>

\* The `commands` list of the Docker block.
DockerCommands == <<
    Command("Install prerequisites",
            "bash -c 'DEBIAN_FRONTEND=noninteractive apt-get install -y ca-certificates curl'", <<>>),
    Command("Create keyrings directory", "install -m 0755 -d /etc/apt/keyrings", <<>>),
    Command("Download Docker GPG key",
            "curl -fsSL https://download.docker.com/linux/debian/gpg -o /etc/apt/keyrings/docker.asc", <<>>),
    Command("Set GPG key permissions", "chmod a+r /etc/apt/keyrings/docker.asc", <<>>),
    Command("Add Docker repository", "bash -c '... | tee /etc/apt/sources.list.d/docker.list'", <<>>),
    Command("Update package lists", "apt-get update", <<>>),
    Command("Install Docker",
            "bash -c 'DEBIAN_FRONTEND=noninteractive apt-get install -y docker-ce ...'", <<>>) >>

\* The `commands` list of the Tailscale block.
TailscaleCommands(key) == <<
    Command("Install Tailscale", "curl -fsSL https://tailscale.com/install.sh | sh", <<>>),
    Command("Connect to Tailscale", "tailscale up --authkey=", key) >>

\* provisioning_config.tailscale and provisioning_config.tailscale.auth_key
TailscaleConfigured(cfg) ==
    cfg.tailscale # {} /\ (CHOOSE t \in cfg.tailscale : TRUE).auth_key # <<>>
ConfiguredKey(cfg) == (CHOOSE t \in cfg.tailscale : TRUE).auth_key

\* auth_key.startswith("${") and auth_key.endswith("}")
IsEnvReference(key) == StartsWith(key, <<"$", "{">>) /\ EndsWith(key, <<"}">>)
\* auth_key[2:-1]
EnvVarOf(key) == SubSeq(key, 3, Len(key) - 1)

\* One call of exec_container_command by the block `b`, as logged in `issued`.
Issue(b, c, o) == Append(issued, [block |-> b, command |-> c, ok |-> ExecSuccess(o)])

\* return <r>
ProvReturn(r) ==
    /\ p_pc' = "done"
    /\ p_result' = r

\* provision_container_via_exec(node_name, vmid, provisioning_config): entry
ProvisionContainerViaExec(cfg) ==
    /\ p_pc = "idle"
    /\ config' = cfg
    /\ p_pc' = "update"
    /\ UNCHANGED <<environ, issued, idx, auth_key, p_result, notP>>

\* Mutant of ProvUpdate: a failed index refresh ends the run.
ProvUpdateFatal ==
    /\ p_pc = "update"
    /\ \E o \in ExecOutcomes :
          /\ issued' = Issue("update", AptUpdate, o)
          /\ IF ~ExecSuccess(o)
               THEN ProvReturn(FALSE)
               ELSE p_pc' = "packages" /\ UNCHANGED p_result
    /\ UNCHANGED <<environ, config, idx, auth_key, notP>>

\* Update package lists: a failure is only logged.
ProvUpdate ==
    /\ p_pc = "update"
    /\ \E o \in ExecOutcomes : issued' = Issue("update", AptUpdate, o)
    /\ p_pc' = "packages"
    /\ UNCHANGED <<environ, config, idx, auth_key, p_result, notP>>

\* Mutant of ProvPackages: a failed installation is only logged.
ProvPackagesIgnoreFailure ==
    /\ p_pc = "packages"
    /\ IF config.packages # <<>>
         THEN \E o \in ExecOutcomes :
                issued' = Issue("packages", AptInstall(config.packages), o)
         ELSE UNCHANGED issued
    /\ p_pc' = "docker"
    /\ UNCHANGED <<environ, config, idx, auth_key, p_result, notP>>

\* Install packages, when the list is not empty.
ProvPackages ==
    /\ p_pc = "packages"
    /\ IF config.packages # <<>>
         THEN \E o \in ExecOutcomes :
                /\ issued' = Issue("packages", AptInstall(config.packages), o)
                /\ IF ~ExecSuccess(o)
                     THEN ProvReturn(FALSE)
                     ELSE p_pc' = "docker" /\ UNCHANGED p_result
         ELSE /\ p_pc' = "docker"
              /\ UNCHANGED <<issued, p_result>>
    /\ UNCHANGED <<environ, config, idx, auth_key, notP>>

\* Mutant of ProvDocker: a failed sub-step is logged and the loop goes on.
ProvDockerContinue ==
    /\ p_pc = "docker"
    /\ IF config.docker
         THEN \E o \in ExecOutcomes :
                /\ issued' = Issue("docker", DockerCommands[idx], o)
                /\ IF idx < Len(DockerCommands)
                     THEN idx' = idx + 1 /\ UNCHANGED <<p_pc, p_result>>
                     ELSE idx' = 1 /\ p_pc' = "tailscale" /\ UNCHANGED p_result
         ELSE /\ p_pc' = "tailscale"
              /\ UNCHANGED <<issued, idx, p_result>>
    /\ UNCHANGED <<environ, config, auth_key, notP>>

\* Install Docker if requested: one pass of the for loop over `commands`
\* (or the skip of the block).
ProvDocker ==
    /\ p_pc = "docker"
    /\ IF config.docker
         THEN \E o \in ExecOutcomes :
                /\ issued' = Issue("docker", DockerCommands[idx], o)
                /\ IF ~ExecSuccess(o)
                     THEN ProvReturn(FALSE) /\ UNCHANGED idx
                     ELSE IF idx < Len(DockerCommands)
                            THEN idx' = idx + 1 /\ UNCHANGED <<p_pc, p_result>>
                            ELSE idx' = 1 /\ p_pc' = "tailscale" /\ UNCHANGED p_result
         ELSE /\ p_pc' = "tailscale"
              /\ UNCHANGED <<issued, idx, p_result>>
    /\ UNCHANGED <<environ, config, auth_key, notP>>

\* Mutant of ProvTailscale: the reference is not resolved, the configured
\* text is used as the key.
ProvTailscaleUnresolved ==
    /\ p_pc = "tailscale"
    /\ IF TailscaleConfigured(config)
         THEN /\ auth_key' = ConfiguredKey(config)
              /\ p_pc' = "ts_cmds"
              /\ UNCHANGED p_result
         ELSE /\ ProvReturn(TRUE)
              /\ UNCHANGED auth_key
    /\ UNCHANGED <<environ, config, issued, idx, notP>>

\* Install Tailscale if configured: resolve the key (or return True when the
\* block is skipped).
ProvTailscale ==
    /\ p_pc = "tailscale"
    /\ IF TailscaleConfigured(config)
         THEN IF IsEnvReference(ConfiguredKey(config))
                THEN /\ auth_key' = EnvGet(environ, EnvVarOf(ConfiguredKey(config)))
                     /\ IF auth_key' = <<>>
                          THEN ProvReturn(FALSE)
                          ELSE p_pc' = "ts_cmds" /\ UNCHANGED p_result
                ELSE /\ auth_key' = ConfiguredKey(config)
                     /\ p_pc' = "ts_cmds"
                     /\ UNCHANGED p_result
         ELSE /\ ProvReturn(TRUE)
              /\ UNCHANGED auth_key
    /\ UNCHANGED <<environ, config, issued, idx, notP>>

\* One pass of the for loop over the Tailscale `commands`; return True after
\* the last.
ProvTailscaleCmd ==
    /\ p_pc = "ts_cmds"
    /\ \E o \in ExecOutcomes :
          /\ issued' = Issue("tailscale", TailscaleCommands(auth_key)[idx], o)
          /\ IF ~ExecSuccess(o)
               THEN ProvReturn(FALSE) /\ UNCHANGED idx
               ELSE IF idx < Len(TailscaleCommands(auth_key))
                      THEN idx' = idx + 1 /\ UNCHANGED <<p_pc, p_result>>
                      ELSE ProvReturn(TRUE) /\ UNCHANGED idx
    /\ UNCHANGED <<environ, config, auth_key, notP>>

\* Mutant of ProvExcept: the handler logs the exception and raises it again.
ProvExceptReraises ==
    /\ p_pc' = "raised"
    /\ UNCHANGED p_result

\* except Exception as e: logger.error(...); return False
ProvExcept == ProvReturn(FALSE)

\* A statement of the try body raises an Exception (a package name that is
\* not a string in " ".join, a key that is not a string in startswith, an
\* exception that exec_container_command lets through).
ProvRaise ==
    /\ p_pc \in {"update", "packages", "docker", "tailscale", "ts_cmds"}
    /\ ProvExcept
    /\ UNCHANGED <<environ, config, issued, idx, auth_key, notP>>

\* ------------------------------------------------------------------------
\* exec_container_command
\* ------------------------------------------------------------------------
LogLevels   == {"NOTSET", "DEBUG", "WARNING"}
Vmids       == {100, 101}
Commands    == {"apt-get update", "true"}
StdoutTexts == {"", "ok"}
StderrTexts == {"", "E: failed"}
\* recv_exit_status(): the remote exit code, or -1 when the server sent none.
ExitCodes   == -1..MaxExitCode
\* str(e) of what ssh.connect, ssh.exec_command and read/decode can raise.
ConnectErrors == {"Authentication failed.", "timed out"}
ExecErrors    == {"SSH session not active"}
ReadErrors    == {"'utf-8' codec can't decode byte 0xff"}

\* f"pct exec {vmid} -- {command}"
PctCommand(vmid, command) == <<"pct exec ", vmid, " -- ", command>>

\* Mutant of ExecReturnValue: a failed command reports its standard output.
ExecReturnStdout(code, out, err) ==
    IF code = 0 THEN <<TRUE, out>> ELSE <<FALSE, out>>

\* if exit_code == 0: return True, output / else: return False, error
ExecReturnValue(code, out, err) ==
    IF code = 0 THEN <<TRUE, out>> ELSE <<FALSE, err>>

\* except Exception as e: return False, str(e); finally: restore the level.
\* The handler does not touch the connection.
ExecExcept(text) ==
    /\ raised' = text
    /\ x_result' = <<FALSE, text>>
    /\ paramiko_level' = original_level
    /\ x_pc' = "done"

\* exec_container_command(node_name, vmid, command): entry; the paramiko
\* logger is set to WARNING and the client object created.
ExecContainerCommand(vmid, command) ==
    /\ x_pc = "idle"
    /\ original_level' = paramiko_level
    /\ paramiko_level' = "WARNING"
    /\ x_args' = <<vmid, command>>
    /\ x_pc' = "connect"
    /\ UNCHANGED <<pct_command, ssh, exit_code, output, error, raised, x_result, notX>>

\* ssh.connect(hostname=node_name, username='root', ..., timeout=30)
ExecConnect ==
    /\ x_pc = "connect"
    /\ \/ /\ ssh' = "open"
          /\ pct_command' = PctCommand(x_args[1], x_args[2])
          /\ x_pc' = "exec"
          /\ UNCHANGED <<raised, x_result, paramiko_level>>
       \/ /\ \E t \in ConnectErrors : ExecExcept(t)
          /\ UNCHANGED <<ssh, pct_command>>
    /\ UNCHANGED <<x_args, exit_code, output, error, original_level, notX>>

\* stdin, stdout, stderr = ssh.exec_command(pct_command)
ExecCommand ==
    /\ x_pc = "exec"
    /\ \/ /\ x_pc' = "wait"
          /\ UNCHANGED <<raised, x_result, paramiko_level>>
       \/ \E t \in ExecErrors : ExecExcept(t)
    /\ UNCHANGED <<x_args, pct_command, ssh, exit_code, output, error,
                   original_level, notX>>

\* exit_code = stdout.channel.recv_exit_status()
ExecRecvExitStatus ==
    /\ x_pc = "wait"
    /\ \E c \in ExitCodes : exit_code' = c
    /\ x_pc' = "read"
    /\ UNCHANGED <<x_args, pct_command, ssh, output, error, raised, paramiko_level,
                   original_level, x_result, notX>>

\* output = stdout.read().decode('utf-8'); error = stderr.read().decode('utf-8')
ExecRead ==
    /\ x_pc = "read"
    /\ \/ /\ \E o \in StdoutTexts, e \in StderrTexts : output' = o /\ error' = e
          /\ x_pc' = "close"
          /\ UNCHANGED <<raised, x_result, paramiko_level>>
       \/ /\ \E t \in ReadErrors : ExecExcept(t)
          /\ UNCHANGED <<output, error>>
    /\ UNCHANGED <<x_args, pct_command, ssh, exit_code, original_level, notX>>

\* ssh.close(), the return on the exit code, and the finally clause.
ExecCloseAndReturn ==
    /\ x_pc = "close"
    /\ ssh' = "closed"
    /\ x_result' = ExecReturnValue(exit_code, output, error)
    /\ paramiko_level' = original_level
    /\ x_pc' = "done"
    /\ UNCHANGED <<x_args, pct_command, exit_code, output, error, raised,
                   original_level, notX>>

\* ------------------------------------------------------------------------
\* The create command (cli/commands/create.py), from the node selection on
\* ------------------------------------------------------------------------
BOOL == {TRUE, FALSE}

\* dry_run, start, provision: the command's flags; has_provisioning:
\* provisioning_config and provisioning_config.has_provisioning();
\* static_ip: container.network_ip is set and is not 'dhcp';
\* debug: ctx.obj.get('DEBUG'); config: a configuration file is given;
\* node: the --node option is given; requirements: cores, memory and
\* storage_pool are all given.
Opts == [dry_run : BOOL, start : BOOL, provision : BOOL,
         has_provisioning : BOOL, static_ip : BOOL, debug : BOOL,
         config : BOOL, node : BOOL, requirements : BOOL]
NoOpts == [dry_run |-> FALSE, start |-> FALSE, provision |-> FALSE,
           has_provisioning |-> FALSE, static_ip |-> FALSE, debug |-> FALSE,
           config |-> FALSE, node |-> FALSE, requirements |-> FALSE]

Addresses == {"10.0.0.5"}

\* What a call on the SSHProvisioner can do: return True, return False, raise.
ConnectOutcomes   == {"True", "False", "raised"}
ProvisionOutcomes == {"True", "False", "raised"}

Called(c) == c_calls' = Append(c_calls, c)

\* except Exception as e: re-raised under DEBUG, else "Error: ..." and
\* sys.exit(1).
CreateExcept ==
    /\ c_exit' = IF c_opts.debug THEN "raise" ELSE "exit1"
    /\ c_pc' = "done"

\* create(...)
Create(opts) ==
    /\ c_pc = "idle"
    /\ c_opts' = opts
    /\ c_pc' = "select"
    /\ UNCHANGED <<c_calls, container_ip, c_auth, c_session, c_exit, notC>>

\* ResourceRequirement and NodeCandidate, names as sequences of characters.
Requirement(c, m, pool, bridge) ==
    [cores |-> c, memory_mb |-> m, storage_gb |-> 10,
     storage_pool |-> pool, network_bridge |-> bridge]
NoRequirement == Requirement(0, 0, "", "")
Requirements ==
    { Requirement(2, 512, "local-lvm", "vmbr0"),
      Requirement(4, 512, "local-lvm", "vmbr0"),
      Requirement(2, 512, "local-lvm", "vmbr1") }

Candidate(n, tc, uc, tm, um, pools, bridges) ==
    [name |-> n, total_cores |-> tc, used_cores |-> uc,
     total_memory_mb |-> tm, used_memory_mb |-> um,
     storage_pools |-> pools, bridges |-> bridges]
CandidateUniverse ==
    { Candidate(<<"b">>,      4, 2, 2048, 1024, {"local-lvm"}, {"vmbr0"}),
      Candidate(<<"a">>,      8, 4, 1024, 512,  {"local-lvm"}, {"vmbr0", "vmbr1"}),
      Candidate(<<"a", "b">>, 8, 2, 2048, 512,  {"local-lvm"}, {"vmbr0"}),
      Candidate(<<"c">>,      4, 3, 2048, 0,    {"local-lvm"}, {"vmbr0"}),
      Candidate(<<"d">>,      8, 0, 2048, 0,    {"local"},     {"vmbr0"}),
      Candidate(<<"e">>,      8, 0, 2048, 256,  {"local-lvm"}, {"vmbr2"}) }

\* Candidate lists: the cluster's nodes in any order, no name twice.
CandidateLists ==
    {l \in SeqsUpTo(CandidateUniverse, MaxCandidates) :
        \A i, j \in 1..Len(l) : i # j => l[i].name # l[j].name}

\* Strings compare character by character; the characters here are letters.
CharRank(ch) == CASE ch = "a" -> 1 [] ch = "b" -> 2 [] ch = "c" -> 3
                  [] ch = "d" -> 4 [] ch = "e" -> 5 [] OTHER -> 6
RECURSIVE LexLess(_, _)
LexLess(s, t) ==
    IF t = <<>> THEN FALSE
    ELSE IF s = <<>> THEN TRUE
    ELSE IF Head(s) # Head(t) THEN CharRank(Head(s)) < CharRank(Head(t))
    ELSE LexLess(Tail(s), Tail(t))

\* Step 1 of select: free cores, free memory, storage pool and bridge.
Fits(c, req) ==
    /\ c.total_cores - c.used_cores >= req.cores
    /\ c.total_memory_mb - c.used_memory_mb >= req.memory_mb
    /\ req.storage_pool \in c.storage_pools
    /\ req.network_bridge \in c.bridges

\* The score of LEAST_LOADED, CPU and memory utilization ratio with equal
\* weight, as the fraction ScoreNum / ScoreDen.
ScoreNum(c) == c.used_cores * c.total_memory_mb + c.used_memory_mb * c.total_cores
ScoreDen(c) == c.total_cores * c.total_memory_mb
ScoreLess(c1, c2) == ScoreNum(c1) * ScoreDen(c2) < ScoreNum(c2) * ScoreDen(c1)

\* Mutant of Better: ties are left to the order of the list.
BetterNoTieBreak(c1, c2) == ScoreLess(c1, c2)

\* c1 is picked before c2: lower score, or equal score and smaller name.
Better(c1, c2) ==
    \/ ScoreLess(c1, c2)
    \/ ~ScoreLess(c2, c1) /\ LexLess(c1.name, c2.name)

\* select(requirement, candidates, LEAST_LOADED): none ({}) when no
\* candidate fits, else the first candidate of the list that no other
\* fitting candidate is picked before.
SelectNode(req, candidates) ==
    LET fit  == {i \in 1..Len(candidates) : Fits(candidates[i], req)}
        best == {i \in fit : \A j \in fit : ~Better(candidates[j], candidates[i])}
    IN  IF fit = {} THEN {}
        ELSE {candidates[CHOOSE i \in best : \A j \in best : i <= j]}

\* Mutant of CreateSelectNode: no node selected by select_node ends the
\* command.
CreateSelectNodeOrFail ==
    /\ c_pc = "select"
    /\ \/ /\ c_opts.config \/ c_opts.node
          /\ c_pc' = "dryrun"
          /\ UNCHANGED <<c_calls, c_exit, s_selected>>
       \/ /\ ~c_opts.config /\ ~c_opts.node /\ c_opts.requirements
          /\ Called("select_node")
          /\ s_selected' = SelectNode(s_requirement, s_candidates)
          /\ IF s_selected' # {}
               THEN c_pc' = "dryrun" /\ UNCHANGED c_exit
               ELSE c_pc' = "done" /\ c_exit' = "exit1"
       \/ /\ ~c_opts.config /\ ~c_opts.node /\ ~c_opts.requirements
          /\ Called("prompt_for_node")
          /\ UNCHANGED s_selected
          /\ \/ c_pc' = "dryrun" /\ UNCHANGED c_exit
             \/ c_pc' = "done" /\ c_exit' = "exit1"
    /\ UNCHANGED <<c_opts, container_ip, c_auth, c_session,
                   s_requirement, s_candidates, notCS>>

\* The node: from the configuration file or the --node option; else from
\* select_node when cores, memory and storage_pool are given; else, and when
\* select_node returned none, from prompt_for_node; without a node the
\* command exits with 1.
CreateSelectNode ==
    /\ c_pc = "select"
    /\ \/ /\ c_opts.config \/ c_opts.node
          /\ c_pc' = "dryrun"
          /\ UNCHANGED <<c_calls, c_exit, s_selected>>
       \/ /\ ~c_opts.config /\ ~c_opts.node /\ c_opts.requirements
          /\ s_selected' = SelectNode(s_requirement, s_candidates)
          /\ \/ /\ s_selected' # {}
                /\ Called("select_node")
                /\ c_pc' = "dryrun" /\ UNCHANGED c_exit
             \/ /\ s_selected' = {}
                /\ c_calls' = c_calls \o <<"select_node", "prompt_for_node">>
                /\ \/ c_pc' = "dryrun" /\ UNCHANGED c_exit
                   \/ c_pc' = "done" /\ c_exit' = "exit1"
       \/ /\ ~c_opts.config /\ ~c_opts.node /\ ~c_opts.requirements
          /\ Called("prompt_for_node")
          /\ UNCHANGED s_selected
          /\ \/ c_pc' = "dryrun" /\ UNCHANGED c_exit
             \/ c_pc' = "done" /\ c_exit' = "exit1"
    /\ UNCHANGED <<c_opts, container_ip, c_auth, c_session,
                   s_requirement, s_candidates, notCS>>

\* if dry_run: return
CreateDryRun ==
    /\ c_pc = "dryrun"
    /\ IF c_opts.dry_run
         THEN c_pc' = "done" /\ c_exit' = "return"
         ELSE c_pc' = "confirm" /\ UNCHANGED c_exit
    /\ UNCHANGED <<c_opts, c_calls, container_ip, c_auth, c_session, notC>>

\* click.confirm("Proceed with container creation?")
CreateConfirm ==
    /\ c_pc = "confirm"
    /\ \/ c_pc' = "create" /\ UNCHANGED c_exit
       \/ c_pc' = "done" /\ c_exit' = "return"
    /\ UNCHANGED <<c_opts, c_calls, container_ip, c_auth, c_session, notC>>

\* task_id = proxmox.create_container(container)
CreateContainer ==
    /\ c_pc = "create"
    /\ Called("create_container")
    /\ \/ c_pc' = "wait" /\ UNCHANGED c_exit
       \/ CreateExcept
    /\ UNCHANGED <<c_opts, container_ip, c_auth, c_session, notC>>

\* Mutant of CreateWait: a failed creation task is only warned about.
CreateWaitIgnoresFailure ==
    /\ c_pc = "wait"
    /\ \/ Called("wait_create_task:True")
       \/ Called("wait_create_task:False")
    /\ c_pc' = "start"
    /\ UNCHANGED <<c_opts, container_ip, c_auth, c_session, c_exit, notC>>

\* success, msg = proxmox.wait_for_task(...); sys.exit(1) if not success.
CreateWait ==
    /\ c_pc = "wait"
    /\ \/ /\ Called("wait_create_task:True")
          /\ c_pc' = "start" /\ UNCHANGED c_exit
       \/ /\ Called("wait_create_task:False")
          /\ c_pc' = "done" /\ c_exit' = "exit1"
    /\ UNCHANGED <<c_opts, container_ip, c_auth, c_session, notC>>

\* if start: start_container, then wait_for_task; a failed start only warns.
CreateStart ==
    /\ c_pc = "start"
    /\ \/ /\ ~c_opts.start
          /\ c_pc' = "gate"
          /\ UNCHANGED <<c_calls, c_exit>>
       \/ /\ c_opts.start
          /\ c_calls' = c_calls \o <<"start_container", "wait_start_task">>
          /\ c_pc' = "gate"
          /\ UNCHANGED c_exit
       \/ /\ c_opts.start
          /\ Called("start_container")
          /\ CreateExcept
    /\ UNCHANGED <<c_opts, container_ip, c_auth, c_session, notC>>

\* if provision and provisioning_config and ...has_provisioning(): else the
\* command ends with "Container ... is ready!".
CreateGate ==
    /\ c_pc = "gate"
    /\ IF c_opts.provision /\ c_opts.has_provisioning
         THEN c_pc' = "ip" /\ UNCHANGED c_exit
         ELSE c_pc' = "done" /\ c_exit' = "return"
    /\ UNCHANGED <<c_opts, c_calls, container_ip, c_auth, c_session, notC>>

\* The address: the static one, or for DHCP the one get_container reports,
\* or the one the operator types; without an address provisioning is skipped.
CreateDiscoverIp ==
    /\ c_pc = "ip"
    /\ \/ /\ c_opts.static_ip
          /\ \E a \in Addresses : container_ip' = a
          /\ c_pc' = "connect"
          /\ UNCHANGED <<c_calls, c_exit>>
       \/ /\ ~c_opts.static_ip
          /\ Called("get_container")
          /\ \/ /\ \E a \in Addresses : container_ip' = a
                /\ c_pc' = "connect"
                /\ UNCHANGED c_exit
             \/ /\ UNCHANGED container_ip
                /\ c_pc' = "done"
                /\ c_exit' = "return"
    /\ UNCHANGED <<c_opts, c_auth, c_session, notC>>

\* provisioner = SSHProvisioner(ssh_config); provisioner.connect(wait_for_ssh=True)
CreateConnect ==
    /\ c_pc = "connect"
    /\ Called("connect")
    /\ c_auth' = "key"
    /\ \E r \in ConnectOutcomes :
         \/ /\ r = "True"
            /\ c_session' = "open"
            /\ c_pc' = "provision"
            /\ UNCHANGED c_exit
         \/ /\ r = "False"
            /\ c_pc' = "fallback"
            /\ UNCHANGED <<c_session, c_exit>>
         \/ /\ r = "raised"
            /\ CreateExcept
            /\ UNCHANGED c_session
    /\ UNCHANGED <<c_opts, container_ip, notC>>

\* click.confirm("Try provisioning with password authentication?"), a new
\* SSHProvisioner and provisioner.connect(wait_for_ssh=False)
CreateFallback ==
    /\ c_pc = "fallback"
    /\ \/ /\ c_pc' = "done"
          /\ c_exit' = "return"
          /\ UNCHANGED <<c_calls, c_auth, c_session>>
       \/ /\ Called("connect")
          /\ c_auth' = "password"
          /\ \E r \in ConnectOutcomes :
               \/ /\ r = "True"
                  /\ c_session' = "open"
                  /\ c_pc' = "provision"
                  /\ UNCHANGED c_exit
               \/ /\ r = "False"
                  /\ c_pc' = "done"
                  /\ c_exit' = "return"
                  /\ UNCHANGED c_session
               \/ /\ r = "raised"
                  /\ CreateExcept
                  /\ UNCHANGED c_session
    /\ UNCHANGED <<c_opts, container_ip, notC>>

\* if provisioner.provision(provisioning_config): ... else: warning
CreateProvision ==
    /\ c_pc = "provision"
    /\ Called("provision")
    /\ \E r \in ProvisionOutcomes :
         \/ /\ r \in {"True", "False"}
            /\ c_pc' = "disconnect"
            /\ UNCHANGED c_exit
         \/ /\ r = "raised"
            /\ CreateExcept
    /\ UNCHANGED <<c_opts, container_ip, c_auth, c_session, notC>>

\* provisioner.disconnect(), then "Container ... is ready!"
CreateDisconnect ==
    /\ c_pc = "disconnect"
    /\ Called("disconnect")
    /\ c_session' = "closed"
    /\ c_pc' = "done"
    /\ c_exit' = "return"
    /\ UNCHANGED <<c_opts, container_ip, c_auth, notC>>

\* ------------------------------------------------------------------------
\* TailscaleAPIClient (services/tailscale.py): the listing cache
\* ------------------------------------------------------------------------
\* self._cache_ttl = 60
cache_ttl == 60

DeviceIds == {"n1", "n2"}

\* A device as the API holds it, and as TailscaleNode.from_api_response
\* keeps it (the 'authorized' attribute is not part of a TailscaleNode).
Devices == [id : DeviceIds, keyExpiryDisabled : BOOL, authorized : BOOL]
FromApiResponse(d) == [id |-> d.id, key_expiry_disabled |-> d.keyExpiryDisabled]
Listing(devices) == {FromApiResponse(d) : d \in devices}

\* The API holds at most one device per id.
Registries ==
    {r \in SUBSET Devices : \A d1, d2 \in r : d1.id = d2.id => d1 = d2}

\* Between two calls of the client time passes: just under, exactly, or just
\* over the time-to-live.
TickSizes == {cache_ttl - 1, cache_ttl, cache_ttl + 1}

HasCache == nodes_cache # {} /\ cache_timestamp # {}
\* cache_age = time.time() - self._cache_timestamp (-1 stands for no timestamp)
CacheAge == IF cache_timestamp = {} THEN -1
            ELSE clock - (CHOOSE t \in cache_timestamp : TRUE)

NoCall == [op |-> "none", ok |-> FALSE, kind |-> "", use_cache |-> FALSE,
           had_cache |-> FALSE, age |-> -1,
           predates_delete |-> FALSE, predates_mutation |-> FALSE]

\* The record of a call: what it was, what it found, how it ended.
CallRecord(op, ok, kind, use_cache) ==
    [op |-> op, ok |-> ok, kind |-> kind, use_cache |-> use_cache,
     had_cache |-> HasCache, age |-> CacheAge,
     predates_delete |-> cached_before_delete,
     predates_mutation |-> cached_before_mutation]

\* Mutant of CacheFresh: a listing exactly one time-to-live old is still served.
CacheFreshInclusive(age) == age <= cache_ttl

\* if cache_age < self._cache_ttl
CacheFresh(age) == age < cache_ttl

\* Mutant of ClearCache: the delete unsets the listing and keeps its timestamp.
ClearListingOnly == nodes_cache' = {} /\ UNCHANGED cache_timestamp

\* Mutant of ClearCache: the delete leaves the cache as it is.
KeepCache == UNCHANGED <<nodes_cache, cache_timestamp>>

\* self._nodes_cache = None; self._cache_timestamp = None
ClearCache == nodes_cache' = {} /\ cache_timestamp' = {}

\* Mutant of ListNodesCall: a failed request unsets the cache.
ListNodesCallDropsCacheOnFailure(use_cache) ==
    /\ \/ /\ use_cache /\ HasCache /\ CacheFresh(CacheAge)
          /\ k_last' = CallRecord("list", TRUE, "hit", use_cache)
          /\ UNCHANGED <<nodes_cache, cache_timestamp,
                         cached_before_delete, cached_before_mutation>>
       \/ /\ ~(use_cache /\ HasCache /\ CacheFresh(CacheAge))
          /\ \/ /\ nodes_cache' = {Listing(registry)}
                /\ cache_timestamp' = {clock}
                /\ cached_before_delete' = FALSE
                /\ cached_before_mutation' = FALSE
                /\ k_last' = CallRecord("list", TRUE, "fetched", use_cache)
             \/ /\ k_last' = CallRecord("list", FALSE, "raised", use_cache)
                /\ nodes_cache' = {} /\ cache_timestamp' = {}
                /\ UNCHANGED <<cached_before_delete, cached_before_mutation>>
    /\ UNCHANGED <<clock, registry>>

\* list_nodes(use_cache): the cached listing if it is there and fresh, else a
\* GET of the devices, whose result replaces the cache; a failed request is
\* re-raised and leaves the cache alone.
ListNodesCall(use_cache) ==
    /\ \/ /\ use_cache /\ HasCache /\ CacheFresh(CacheAge)
          /\ k_last' = CallRecord("list", TRUE, "hit", use_cache)
          /\ UNCHANGED <<nodes_cache, cache_timestamp,
                         cached_before_delete, cached_before_mutation>>
       \/ /\ ~(use_cache /\ HasCache /\ CacheFresh(CacheAge))
          /\ \/ /\ nodes_cache' = {Listing(registry)}
                /\ cache_timestamp' = {clock}
                /\ cached_before_delete' = FALSE
                /\ cached_before_mutation' = FALSE
                /\ k_last' = CallRecord("list", TRUE, "fetched", use_cache)
             \/ /\ k_last' = CallRecord("list", FALSE, "raised", use_cache)
                /\ UNCHANGED <<nodes_cache, cache_timestamp,
                               cached_before_delete, cached_before_mutation>>
    /\ UNCHANGED <<clock, registry>>

ListNodes(use_cache) == ListNodesCall(use_cache) /\ UNCHANGED notK

\* delete_node(node_id): DELETE /device/{id}; on success the cache is
\* cleared and True returned, on a RequestException False is returned.
DeleteNodeCall(node_id) ==
    /\ \/ /\ \E d \in registry : d.id = node_id
          /\ registry' = {d \in registry : d.id # node_id}
          /\ ClearCache
          /\ cached_before_delete' = (nodes_cache' # {})
          /\ cached_before_mutation' = (nodes_cache' # {})
          /\ k_last' = CallRecord("delete", TRUE, "", FALSE)
       \/ /\ k_last' = CallRecord("delete", FALSE, "", FALSE)
          /\ cached_before_mutation' = (nodes_cache # {})
          /\ UNCHANGED <<registry, nodes_cache, cache_timestamp,
                         cached_before_delete>>
    /\ UNCHANGED clock

DeleteNode(node_id) == DeleteNodeCall(node_id) /\ UNCHANGED notK

\* expire_node_key(node_id): POST /device/{id}/key {"keyExpiryDisabled": false}
ExpireNodeKey(node_id) ==
    /\ \/ /\ \E d \in registry : d.id = node_id
          /\ registry' = {IF d.id = node_id
                            THEN [d EXCEPT !.keyExpiryDisabled = FALSE]
                            ELSE d : d \in registry}
          /\ k_last' = CallRecord("expire", TRUE, "", FALSE)
       \/ /\ k_last' = CallRecord("expire", FALSE, "", FALSE)
          /\ UNCHANGED registry
    /\ cached_before_mutation' = (nodes_cache # {})
    /\ UNCHANGED <<clock, nodes_cache, cache_timestamp, cached_before_delete, notK>>

\* set_authorized(node_id, authorized): POST /device/{id}/authorized
SetAuthorized(node_id, authorized) ==
    /\ \/ /\ \E d \in registry : d.id = node_id
          /\ registry' = {IF d.id = node_id
                            THEN [d EXCEPT !.authorized = authorized]
                            ELSE d : d \in registry}
          /\ k_last' = CallRecord("authorize", TRUE, "", FALSE)
       \/ /\ k_last' = CallRecord("authorize", FALSE, "", FALSE)
          /\ UNCHANGED registry
    /\ cached_before_mutation' = (nodes_cache # {})
    /\ UNCHANGED <<clock, nodes_cache, cache_timestamp, cached_before_delete, notK>>

\* Time passes between two calls.
Tick ==
    /\ \E d \in TickSizes :
         /\ clock + d <= MaxClock
         /\ clock' = clock + d
    /\ UNCHANGED <<registry, nodes_cache, cache_timestamp, k_last,
                   cached_before_delete, cached_before_mutation, notK>>

\* ------------------------------------------------------------------------
\* get_node_by_hostname and find_container_node (services/tailscale.py)
\* Names are sequences of characters.
\* ------------------------------------------------------------------------
\* str.lower(), on the characters the names here are made of.
LowerChar(c) == CASE c = "W" -> "w"
                  [] c = "C" -> "c"
                  [] c = "T" -> "t"
                  [] OTHER   -> c
Lower(s) == [i \in 1..Len(s) |-> LowerChar(s[i])]

\* '.' in s, and s.split('.')[0]
HasDot(s) == \E i \in 1..Len(s) : s[i] = "."
BeforeDot(s) ==
    IF HasDot(s)
      THEN SubSeq(s, 1, (CHOOSE i \in 1..Len(s) :
                            s[i] = "." /\ \A j \in 1..(i - 1) : s[j] # ".") - 1)
      ELSE s

\* str(n) for n >= 0
DigitChars == <<"0", "1", "2", "3", "4", "5", "6", "7", "8", "9">>
RECURSIVE IntToStr(_)
IntToStr(n) ==
    IF n < 10 THEN <<DigitChars[n + 1]>>
    ELSE IntToStr(n \div 10) \o <<DigitChars[(n % 10) + 1]>>

\* The devices of the registry, as TailscaleNode objects.
TsNode(i, h, n) == [id |-> i, hostname |-> h, name |-> n]
NodeUniverse ==
    { TsNode("a", <<"w">>,                     <<"w", "-", "1", ".", "t">>),
      TsNode("b", <<"o">>,                     <<"w", ".", "t">>),
      TsNode("c", <<"W", "-", "c", "t">>,      <<"w", "-", "c", "t", ".", "t">>),
      TsNode("d", <<"w", "-", "7">>,           <<"w", "-", "7", ".", "t">>),
      TsNode("e", <<"w", "-", "c", "t", "7">>, <<"w", "-", "c", "t", "7", ".", "t">>),
      \* data.get('hostName', ''): a device reported without a host name
      TsNode("g", <<>>,                        <<"g", ".", "t">>) }

\* Listings: the devices in the order the API returns them, none twice.
Listings ==
    {l \in SeqsUpTo(NodeUniverse, MaxNodes) :
        \A i, j \in 1..Len(l) : i # j => l[i] # l[j]}

Hostnames ==
    { <<"w">>, <<"W">>, <<"w", ".", "t">>, <<"x">>,
      <<"w", "-", "c", "t">>, <<"w", "-", "7">>,
      <<"w", "-", "c", "t", "7">>, <<"w", "c", "t", "7">>,
      <<"-", "c", "t">> }

\* vmid: None or a container id.
VmidArgs == {{}, {7}, {12}}

\* Mutant of NodeMatches: a name that only begins with the hostname passes.
NodeMatchesPrefix(node, hostname_lower) ==
    \/ StartsWith(Lower(node.hostname), hostname_lower)
    \/ StartsWith(Lower(node.name), hostname_lower)

\* The test of one node in get_node_by_hostname's loop: exact match on the
\* lowered hostname or name, else on the part of either before its first '.'.
NodeMatches(node, hostname_lower) ==
    LET node_hostname_lower == Lower(node.hostname)
        node_name_lower     == Lower(node.name)
    IN  \/ node_hostname_lower = hostname_lower
        \/ node_name_lower = hostname_lower
        \/ HasDot(node_hostname_lower) /\ BeforeDot(node_hostname_lower) = hostname_lower
        \/ HasDot(node_name_lower) /\ BeforeDot(node_name_lower) = hostname_lower

\* get_node_by_hostname(hostname): the first node of the listing that passes
\* the test, {} for None.
GetNodeByHostname(nodes, hostname) ==
    LET hits == {i \in 1..Len(nodes) : NodeMatches(nodes[i], Lower(hostname))}
    IN  IF hits = {} THEN {}
        ELSE {nodes[CHOOSE i \in hits : \A j \in hits : i <= j]}

\* The first of the names for which get_node_by_hostname finds a node.
RECURSIVE FirstFound(_, _)
FirstFound(nodes, names) ==
    IF names = <<>> THEN {}
    ELSE IF GetNodeByHostname(nodes, Head(names)) # {}
           THEN GetNodeByHostname(nodes, Head(names))
           ELSE FirstFound(nodes, Tail(names))

\* Mutant of Suffixes: the vmid suffixes are tried before '-ct'.
SuffixesVmidFirst(v) ==
    IF v = {} \/ v = {0} THEN << <<"-", "c", "t">> >>
    ELSE LET n == IntToStr(CHOOSE x \in v : TRUE)
         IN  << <<"-">> \o n, <<"-", "c", "t">> \o n, <<"-", "c", "t">> >>

\* suffixes = ['-ct', f'-{vmid}' if vmid else None, f'-ct{vmid}' if vmid else None]
\* without the None entries, which the loop skips.
Suffixes(v) ==
    IF v = {} \/ v = {0} THEN << <<"-", "c", "t">> >>
    ELSE LET n == IntToStr(CHOOSE x \in v : TRUE)
         IN  << <<"-", "c", "t">>, <<"-">> \o n, <<"-", "c", "t">> \o n >>

\* patterns_to_remove = [f'-{vmid}', f'-ct{vmid}', '-ct', f'ct{vmid}']
PatternsToRemove(n) ==
    << <<"-">> \o n, <<"-", "c", "t">> \o n, <<"-", "c", "t">>, <<"c", "t">> \o n >>

\* container_hostname[:-len(pattern)] for the patterns it ends with, in order.
RECURSIVE BaseHostnames(_, _)
BaseHostnames(hostname, patterns) ==
    IF patterns = <<>> THEN <<>>
    ELSE (IF EndsWith(hostname, Head(patterns))
            THEN <<SubSeq(hostname, 1, Len(hostname) - Len(Head(patterns)))>>
            ELSE <<>>)
         \o BaseHostnames(hostname, Tail(patterns))

\* find_container_node(container_hostname, vmid)
FindContainerNode(nodes, hostname, v) ==
    LET direct   == GetNodeByHostname(nodes, hostname)
        bySuffix == FirstFound(nodes,
                        [i \in 1..Len(Suffixes(v)) |-> hostname \o Suffixes(v)[i]])
    IN  IF direct # {} THEN direct
        ELSE IF bySuffix # {} THEN bySuffix
        ELSE IF v = {} \/ v = {0} THEN {}
        ELSE FirstFound(nodes,
                 BaseHostnames(hostname,
                     PatternsToRemove(IntToStr(CHOOSE x \in v : TRUE))))

\* One call of find_container_node.
FindCall ==
    /\ f_pc = "idle"
    /\ f_result' = FindContainerNode(f_nodes, f_hostname, f_vmid)
    /\ f_pc' = "done"
    /\ UNCHANGED <<f_nodes, f_hostname, f_vmid>>

Find == FindCall /\ UNCHANGED notF

\* ------------------------------------------------------------------------
\* TailscaleNodeManager.remove_container_node (services/tailscale.py)
\* ------------------------------------------------------------------------
\* The devices behind a listing, as the API holds them.
RegistryOf(nodes) ==
    {[id |-> nodes[i].id, keyExpiryDisabled |-> FALSE, authorized |-> TRUE] :
        i \in 1..Len(nodes)}

FoundId == (CHOOSE n \in f_result : TRUE).id

\* Mutant of RemoveFind: no node found is reported as a failure.
RemoveFindNotFoundFails(force) ==
    /\ r_pc = "idle"
    /\ r_force' = force
    /\ ListNodesCall(TRUE)
    /\ IF k_last'.kind = "raised"
         THEN /\ r_raised' = TRUE
              /\ r_pc' = "done"
              /\ UNCHANGED <<fvars, r_result>>
         ELSE /\ FindCall
              /\ IF f_result' = {}
                   THEN r_pc' = "done" /\ r_result' = {FALSE}
                   ELSE r_pc' = "found" /\ UNCHANGED r_result
              /\ UNCHANGED r_raised
    /\ UNCHANGED <<r_calls, notRKF>>

\* node = self.find_container_node(container_hostname, vmid);
\* if not node: return True. find lists the nodes through the client, and a
\* failed listing request is raised through find and remove.
RemoveFind(force) ==
    /\ r_pc = "idle"
    /\ r_force' = force
    /\ ListNodesCall(TRUE)
    /\ IF k_last'.kind = "raised"
         THEN /\ r_raised' = TRUE
              /\ r_pc' = "done"
              /\ UNCHANGED <<fvars, r_result>>
         ELSE /\ FindCall
              /\ IF f_result' = {}
                   THEN r_pc' = "done" /\ r_result' = {TRUE}
                   ELSE r_pc' = "found" /\ UNCHANGED r_result
              /\ UNCHANGED r_raised
    /\ UNCHANGED <<r_calls, notRKF>>

\* Mutant of RemoveConfirm: the answer to the prompt is not looked at.
RemoveConfirmIgnored ==
    /\ r_pc = "found"
    /\ \/ /\ r_force
          /\ UNCHANGED r_calls
       \/ /\ ~r_force
          /\ \E answer \in {"yes", "no"} :
               r_calls' = Append(r_calls, <<"confirm", FoundId, answer>>)
    /\ r_pc' = "delete"
    /\ UNCHANGED <<r_force, r_result, r_raised, kvars, fvars, notRKF>>

\* if not force: if not confirm_tailscale_node_removal(node.name, node.id):
\*     return False
RemoveConfirm ==
    /\ r_pc = "found"
    /\ \/ /\ r_force
          /\ r_pc' = "delete"
          /\ UNCHANGED <<r_calls, r_result>>
       \/ /\ ~r_force
          /\ \E answer \in {"yes", "no"} :
               /\ r_calls' = Append(r_calls, <<"confirm", FoundId, answer>>)
               /\ IF answer = "yes"
                    THEN r_pc' = "delete" /\ UNCHANGED r_result
                    ELSE r_pc' = "done" /\ r_result' = {FALSE}
    /\ UNCHANGED <<r_force, r_raised, kvars, fvars, notRKF>>

\* Mutant of RemoveDelete: the delete targets the first entry of the listing.
RemoveDeleteFirstListed ==
    /\ r_pc = "delete"
    /\ DeleteNodeCall(f_nodes[1].id)
    /\ r_calls' = Append(r_calls,
                     <<"delete", f_nodes[1].id, IF k_last'.ok THEN "ok" ELSE "failed">>)
    /\ r_result' = {k_last'.ok}
    /\ r_pc' = "done"
    /\ UNCHANGED <<r_force, r_raised, fvars, notRKF>>

\* Mutant of RemoveDelete: True is returned whatever delete_node returned.
RemoveDeleteAlwaysTrue ==
    /\ r_pc = "delete"
    /\ DeleteNodeCall(FoundId)
    /\ r_calls' = Append(r_calls,
                     <<"delete", FoundId, IF k_last'.ok THEN "ok" ELSE "failed">>)
    /\ r_result' = {TRUE}
    /\ r_pc' = "done"
    /\ UNCHANGED <<r_force, r_raised, fvars, notRKF>>

\* success = self.api_client.delete_node(node.id); return success
RemoveDelete ==
    /\ r_pc = "delete"
    /\ DeleteNodeCall(FoundId)
    /\ r_calls' = Append(r_calls,
                     <<"delete", FoundId, IF k_last'.ok THEN "ok" ELSE "failed">>)
    /\ r_result' = {k_last'.ok}
    /\ r_pc' = "done"
    /\ UNCHANGED <<r_force, r_raised, fvars, notRKF>>

\* ------------------------------------------------------------------------
\* The destroy command (cli/commands/destroy.py)
\* ------------------------------------------------------------------------
\* force, remove_tailscale_node: the command's flags; tailscale_configured:
\* TAILSCALE_API_KEY and TAILSCALE_TAILNET are set; running: the container's
\* status is 'running'; debug: ctx.obj.get('DEBUG').
DestroyOpts == [force : BOOL, remove_tailscale_node : BOOL,
                tailscale_configured : BOOL, running : BOOL, debug : BOOL]
NoDestroyOpts == [force |-> FALSE, remove_tailscale_node |-> FALSE,
                  tailscale_configured |-> FALSE, running |-> FALSE,
                  debug |-> FALSE]

\* A prompt is answered yes or no, or aborted (click.Abort, an Exception).
PromptAnswers == {"yes", "no", "abort"}

\* How remove_container_node can end and whether it issued a registry
\* delete: no entry (True), entry deleted (True), prompt declined (False,
\* only without force), delete failed (False), listing failed (raised).
RemoveOutcomes(force) ==
    { [result |-> "True",   delete_issued |-> FALSE],
      [result |-> "True",   delete_issued |-> TRUE],
      [result |-> "False",  delete_issued |-> TRUE],
      [result |-> "raised", delete_issued |-> FALSE] }
    \cup (IF force THEN {} ELSE {[result |-> "False", delete_issued |-> FALSE]})

\* Mutant of DestroyBlocks: the container is stopped before the operator is
\* asked to confirm.
DestroyBlocksStopBeforeConfirm ==
    <<"connect", "find", "stop", "confirm", "tailscale", "destroy", "wait">>

\* Mutant of DestroyBlocks: the container is destroyed before the registry
\* is reconciled.
DestroyBlocksReconcileLate ==
    <<"connect", "find", "confirm", "stop", "destroy", "tailscale", "wait">>

\* The blocks of the command in the order of the source.
DestroyBlocks ==
    <<"connect", "find", "confirm", "stop", "tailscale", "destroy", "wait">>

\* The block that follows block b.
After(b) ==
    LET i == CHOOSE k \in 1..Len(DestroyBlocks) : DestroyBlocks[k] = b
    IN  IF i = Len(DestroyBlocks) THEN "done" ELSE DestroyBlocks[i + 1]

DCalled(c) == d_calls' = Append(d_calls, c)

DestroyEnds(how) == d_pc' = "done" /\ d_exit' = how

\* except Exception as e: re-raised under DEBUG, else sys.exit(1)
DestroyExcept == DestroyEnds(IF d_opts.debug THEN "raise" ELSE "exit1")

\* destroy(ctx, vmid, force, purge, remove_tailscale_node)
Destroy(opts) ==
    /\ d_pc = "idle"
    /\ d_opts' = opts
    /\ d_pc' = DestroyBlocks[1]
    /\ UNCHANGED <<d_calls, d_remove, d_declined, d_exit, notD>>

\* proxmox = ProxmoxService(); if not proxmox.test_connection(): sys.exit(1)
DestroyConnect ==
    /\ d_pc = "connect"
    /\ DCalled("test_connection")
    /\ \/ d_pc' = After("connect") /\ UNCHANGED d_exit
       \/ DestroyEnds("exit1")
    /\ UNCHANGED <<d_opts, d_remove, d_declined, notD>>

\* containers = proxmox.list_containers(); the vmid is among them or not.
DestroyFind ==
    /\ d_pc = "find"
    /\ DCalled("list_containers")
    /\ \/ d_pc' = After("find") /\ UNCHANGED d_exit
       \/ DestroyEnds("exit1")
       \/ DestroyExcept
    /\ UNCHANGED <<d_opts, d_remove, d_declined, notD>>

\* if not force: if not prompts.confirm_destroy(vmid, hostname): return
DestroyConfirm ==
    /\ d_pc = "confirm"
    /\ \/ /\ d_opts.force
          /\ d_pc' = After("confirm") /\ UNCHANGED d_exit
       \/ /\ ~d_opts.force
          /\ \E a \in PromptAnswers :
               \/ a = "yes" /\ d_pc' = After("confirm") /\ UNCHANGED d_exit
               \/ a = "no" /\ DestroyEnds("return")
               \/ a = "abort" /\ DestroyExcept
    /\ UNCHANGED <<d_opts, d_calls, d_remove, d_declined, notD>>

\* if status == 'running': stop_container, wait_for_task; a failed stop is
\* warned about and asks (without force) whether to continue; any exception
\* in the block (stop_container's RuntimeError, the prompt's Abort) is only
\* warned about and the command goes on.
DestroyStop ==
    /\ d_pc = "stop"
    /\ \/ /\ ~d_opts.running
          /\ d_pc' = After("stop")
          /\ UNCHANGED <<d_calls, d_declined, d_exit>>
       \/ /\ d_opts.running
          /\ d_calls' = d_calls \o <<"stop_container", "warn_could_not_stop">>
          /\ d_pc' = After("stop")
          /\ UNCHANGED <<d_declined, d_exit>>
       \/ /\ d_opts.running
          /\ d_calls' = d_calls \o <<"stop_container", "wait_stop_task">>
          /\ d_pc' = After("stop")
          /\ UNCHANGED <<d_declined, d_exit>>
       \/ /\ d_opts.running
          /\ d_opts.force
          /\ d_calls' = d_calls \o <<"stop_container", "wait_stop_task",
                                     "warn_failed_to_stop">>
          /\ d_pc' = After("stop")
          /\ UNCHANGED <<d_declined, d_exit>>
       \/ /\ d_opts.running
          /\ ~d_opts.force
          /\ \E a \in PromptAnswers :
               \/ /\ a = "yes"
                  /\ d_calls' = d_calls \o <<"stop_container", "wait_stop_task",
                                             "warn_failed_to_stop", "continue:yes">>
                  /\ d_pc' = After("stop")
                  /\ UNCHANGED <<d_declined, d_exit>>
               \/ /\ a = "abort"
                  /\ d_calls' = d_calls \o <<"stop_container", "wait_stop_task",
                                             "warn_failed_to_stop", "continue:abort",
                                             "warn_could_not_stop">>
                  /\ d_pc' = After("stop")
                  /\ UNCHANGED <<d_declined, d_exit>>
               \/ /\ a = "no"
                  /\ d_calls' = d_calls \o <<"stop_container", "wait_stop_task",
                                             "warn_failed_to_stop", "continue:no">>
                  /\ d_declined' = TRUE
                  /\ DestroyEnds("return")
    /\ UNCHANGED <<d_opts, d_remove, notD>>

\* Mutant of DestroyTailscale: without force the operator is asked whether
\* to continue whatever remove_container_node returned.
DestroyTailscaleAlwaysAsks ==
    /\ d_pc = "tailscale"
    /\ \/ /\ ~(d_opts.remove_tailscale_node /\ d_opts.tailscale_configured)
          /\ d_pc' = After("tailscale")
          /\ UNCHANGED <<d_calls, d_remove, d_declined, d_exit>>
       \/ /\ d_opts.remove_tailscale_node /\ d_opts.tailscale_configured
          /\ \E o \in RemoveOutcomes(d_opts.force) :
               /\ d_calls' = d_calls \o <<"remove_container_node">>
                      \o (IF o.delete_issued THEN <<"registry_delete">> ELSE <<>>)
               /\ d_remove' = o.result
               /\ \/ /\ o.result = "raised" \/ d_opts.force
                     /\ d_pc' = After("tailscale")
                     /\ UNCHANGED <<d_declined, d_exit>>
                  \/ /\ o.result # "raised" /\ ~d_opts.force
                     /\ \E a \in PromptAnswers :
                          \/ /\ a \in {"yes", "abort"}
                             /\ d_pc' = After("tailscale")
                             /\ UNCHANGED <<d_declined, d_exit>>
                          \/ /\ a = "no"
                             /\ d_declined' = TRUE
                             /\ DestroyEnds("return")
    /\ UNCHANGED <<d_opts, notD>>

\* Mutant of DestroyTailscale: an exception of remove_container_node ends
\* the command.
DestroyTailscaleFatal ==
    /\ d_pc = "tailscale"
    /\ \/ /\ ~(d_opts.remove_tailscale_node /\ d_opts.tailscale_configured)
          /\ d_pc' = After("tailscale")
          /\ UNCHANGED <<d_calls, d_remove, d_declined, d_exit>>
       \/ /\ d_opts.remove_tailscale_node /\ d_opts.tailscale_configured
          /\ \E o \in RemoveOutcomes(d_opts.force) :
               /\ d_calls' = d_calls \o <<"remove_container_node">>
                      \o (IF o.delete_issued THEN <<"registry_delete">> ELSE <<>>)
               /\ d_remove' = o.result
               /\ \/ /\ o.result = "True" \/ (o.result = "False" /\ d_opts.force)
                     /\ d_pc' = After("tailscale")
                     /\ UNCHANGED <<d_declined, d_exit>>
                  \/ /\ o.result = "raised"
                     /\ DestroyExcept
                     /\ UNCHANGED d_declined
                  \/ /\ o.result = "False" /\ ~d_opts.force
                     /\ \E a \in PromptAnswers :
                          \/ /\ a \in {"yes", "abort"}
                             /\ d_pc' = After("tailscale")
                             /\ UNCHANGED <<d_declined, d_exit>>
                          \/ /\ a = "no"
                             /\ d_declined' = TRUE
                             /\ DestroyEnds("return")
    /\ UNCHANGED <<d_opts, notD>>

\* if remove_tailscale_node and the API is configured:
\* remove_container_node(hostname, vmid, force=force); a False result asks
\* (without force) whether to continue; any exception in the block, the
\* prompt's Abort included, is logged and the command goes on.
DestroyTailscale ==
    /\ d_pc = "tailscale"
    /\ \/ /\ ~(d_opts.remove_tailscale_node /\ d_opts.tailscale_configured)
          /\ d_pc' = After("tailscale")
          /\ UNCHANGED <<d_calls, d_remove, d_declined, d_exit>>
       \/ /\ d_opts.remove_tailscale_node /\ d_opts.tailscale_configured
          /\ \E o \in RemoveOutcomes(d_opts.force) :
               /\ d_calls' = d_calls \o <<"remove_container_node">>
                      \o (IF o.delete_issued THEN <<"registry_delete">> ELSE <<>>)
               /\ d_remove' = o.result
               /\ \/ /\ \/ o.result \in {"True", "raised"}
                        \/ o.result = "False" /\ d_opts.force
                     /\ d_pc' = After("tailscale")
                     /\ UNCHANGED <<d_declined, d_exit>>
                  \/ /\ o.result = "False" /\ ~d_opts.force
                     /\ \E a \in PromptAnswers :
                          \/ /\ a \in {"yes", "abort"}
                             /\ d_pc' = After("tailscale")
                             /\ UNCHANGED <<d_declined, d_exit>>
                          \/ /\ a = "no"
                             /\ d_declined' = TRUE
                             /\ DestroyEnds("return")
    /\ UNCHANGED <<d_opts, notD>>

\* task_id = proxmox.destroy_container(node, vmid, purge=purge)
DestroyContainer ==
    /\ d_pc = "destroy"
    /\ DCalled("destroy_container")
    /\ \/ d_pc' = After("destroy") /\ UNCHANGED d_exit
       \/ DestroyExcept
    /\ UNCHANGED <<d_opts, d_remove, d_declined, notD>>

\* success, msg = proxmox.wait_for_task(node, task_id, timeout=60);
\* sys.exit(1) if not success
DestroyWait ==
    /\ d_pc = "wait"
    /\ DCalled("wait_destroy_task")
    /\ \/ d_pc' = After("wait") /\ d_exit' = "exit0"
       \/ DestroyEnds("exit1")
    /\ UNCHANGED <<d_opts, d_remove, d_declined, notD>>

\* ------------------------------------------------------------------------
\* ProxmoxService.get_next_vmid and list_containers (services/proxmox.py)
\* ------------------------------------------------------------------------
\* min_vmid: int = 100; the cluster hands out ids from the same number on.
min_vmid_default == 100

ClusterNodes == {"pve1", "pve2"}
Vmids100     == min_vmid_default..(min_vmid_default + MaxVmidSpan)

\* A cluster: each node's containers; a vmid exists on at most one node.
Clusters ==
    {c \in [ClusterNodes -> SUBSET Vmids100] :
        \A n1, n2 \in ClusterNodes : n1 # n2 => c[n1] \cap c[n2] = {}}

InUse(c) == UNION {c[n] : n \in ClusterNodes}

SetMax(S) == CHOOSE x \in S : \A y \in S : y <= x
Max2(a, b) == IF a >= b THEN a ELSE b

\* self.client.cluster.nextid.get(): the lowest id that is free.
NextId(c) ==
    CHOOSE i \in min_vmid_default..(min_vmid_default + MaxVmidSpan + 1) :
        /\ i \notin InUse(c)
        /\ \A j \in min_vmid_default..(i - 1) : j \in InUse(c)

\* list_containers(): the containers of every node whose listing did not
\* fail (a failed node is logged and left out).
ListContainers(c, failed) == UNION {c[n] : n \in ClusterNodes \ failed}

\* get_next_vmid(min_vmid): return max(int(nextid), min_vmid), or go to the
\* fallback when the next-id call raises.
GetNextVmid(min_vmid) ==
    /\ g_pc = "idle"
    /\ g_min_vmid' = min_vmid
    /\ \/ /\ g_result' = Max2(NextId(cluster), min_vmid)
          /\ g_pc' = "done"
       \/ /\ g_pc' = "fallback"
          /\ UNCHANGED g_result
    /\ UNCHANGED <<cluster, g_listed, g_raised, notG>>

\* containers = self.list_containers(); highest listed vmid plus one, at
\* least min_vmid; min_vmid when nothing is listed. Listing the nodes can
\* itself raise, and that exception leaves get_next_vmid.
VmidFallback ==
    /\ g_pc = "fallback"
    /\ \/ \E failed \in SUBSET ClusterNodes :
            /\ g_listed' = ListContainers(cluster, failed)
            /\ g_result' = IF g_listed' # {}
                             THEN Max2(SetMax(g_listed') + 1, g_min_vmid)
                             ELSE g_min_vmid
            /\ UNCHANGED g_raised
       \/ /\ g_raised' = TRUE
          /\ UNCHANGED <<g_listed, g_result>>
    /\ g_pc' = "done"
    /\ UNCHANGED <<cluster, g_min_vmid, notG>>

\* ------------------------------------------------------------------------
\* ProxmoxService.configure_lxc_for_tailscale (services/proxmox.py)
\* ------------------------------------------------------------------------
\* config_lines
ConfigLines == <<
    "# Allow TUN device for Tailscale",
    "lxc.cgroup2.devices.allow: c 10:200 rwm",
    "lxc.mount.entry: /dev/net/tun dev/net/tun none bind,create=file" >>

\* What the container's file can hold before the first call.
InitialConfs == {<<>>, <<"arch: amd64">>, <<"arch: amd64">> \o ConfigLines}

\* Whether a line holds the pattern 'dev/net/tun': of the lines a file holds
\* here only the mount entry does.
HoldsTunPattern(line) == line = ConfigLines[3]

\* The exit code of grep -q 'dev/net/tun' /etc/pve/lxc/{vmid}.conf
GrepTun(conf) ==
    IF \E i \in 1..Len(conf) : HoldsTunPattern(conf[i]) THEN 0 ELSE 1

LxcReturn(r) == l_pc' = "done" /\ l_result' = {r}

\* except Exception as e: logger.error(...); return False
LxcExcept == LxcReturn(FALSE) /\ l_error' = TRUE

\* configure_lxc_for_tailscale(node_name, vmid): entry, up to ssh.connect
ConfigureLxcForTailscale ==
    /\ l_pc \in {"idle", "done"}
    /\ l_count < MaxConfigureCalls
    /\ l_count' = l_count + 1
    /\ l_before' = l_conf
    /\ l_idx' = 1
    /\ \/ l_pc' = "check" /\ l_result' = {} /\ l_error' = FALSE
       \/ LxcExcept
    /\ UNCHANGED <<l_conf, notL>>

\* check_cmd: exit code 0 returns True, any other goes on to the appends.
LxcCheck ==
    /\ l_pc = "check"
    /\ \/ /\ GrepTun(l_conf) = 0
          /\ LxcReturn(TRUE)
          /\ UNCHANGED l_error
       \/ /\ GrepTun(l_conf) # 0
          /\ l_pc' = "append"
          /\ UNCHANGED <<l_result, l_error>>
       \/ LxcExcept
    /\ UNCHANGED <<l_conf, l_before, l_idx, l_count, notL>>

\* One pass of the for loop: echo '{line}' >> the file; a non-zero exit code
\* returns False, the last line appended returns True.
LxcAppend ==
    /\ l_pc = "append"
    /\ \/ /\ l_conf' = Append(l_conf, ConfigLines[l_idx])
          /\ IF l_idx < Len(ConfigLines)
               THEN l_idx' = l_idx + 1 /\ UNCHANGED <<l_pc, l_result>>
               ELSE LxcReturn(TRUE) /\ UNCHANGED l_idx
          /\ UNCHANGED l_error
       \/ /\ LxcReturn(FALSE)
          /\ UNCHANGED <<l_conf, l_idx, l_error>>
       \/ /\ LxcExcept
          /\ UNCHANGED <<l_conf, l_idx>>
    /\ UNCHANGED <<l_before, l_count, notL>>

\* ------------------------------------------------------------------------
\* The direct-SSH connection with wait for reachability (SSHProvisioner.connect,
\* configured by cli/commands/create.py)
\* ------------------------------------------------------------------------
\* ssh_config = SSHConfig(..., retry_attempts=12, retry_delay=5)
SshConfigOfCreate == [retry_attempts |-> 12, retry_delay |-> 5]

\* The policies a session is given: the create command's and a short one.
SshConfigs == {SshConfigOfCreate, [retry_attempts |-> 3, retry_delay |-> 2]}

\* The attempts one connect may make: retry_attempts when it waits for
\* reachability, else one.
AttemptLimit == IF h_wait THEN h_config.retry_attempts ELSE 1

\* provisioner.connect(wait_for_ssh): entry
SshConnect(cfg, wait) ==
    /\ h_pc = "idle"
    /\ h_config' = cfg
    /\ h_wait' = wait
    /\ h_pc' = "attempt"
    /\ UNCHANGED <<h_reachable, h_attempts, h_sleeps, h_elapsed, h_result, notH>>

\* Mutant of ConnectAttempt: the loop gives up one attempt early.
ConnectAttemptOneShort ==
    /\ h_pc = "attempt"
    /\ h_attempts' = h_attempts + 1
    /\ \E d \in 0..MaxAttemptLatency : h_elapsed' = h_elapsed + d
    /\ \/ /\ h_reachable
          /\ h_pc' = "done" /\ h_result' = {TRUE}
       \/ IF h_attempts' + 1 < AttemptLimit
            THEN h_pc' = "sleep" /\ UNCHANGED h_result
            ELSE h_pc' = "done" /\ h_result' = {FALSE}
    /\ UNCHANGED <<h_config, h_wait, h_reachable, h_sleeps, notH>>

\* One attempt to open the session: success returns True; a failure is
\* followed by the delay when attempts remain, else False is returned.
ConnectAttempt ==
    /\ h_pc = "attempt"
    /\ h_attempts' = h_attempts + 1
    /\ \E d \in 0..MaxAttemptLatency : h_elapsed' = h_elapsed + d
    /\ \/ /\ h_reachable
          /\ h_pc' = "done" /\ h_result' = {TRUE}
       \/ IF h_attempts' < AttemptLimit
            THEN h_pc' = "sleep" /\ UNCHANGED h_result
            ELSE h_pc' = "done" /\ h_result' = {FALSE}
    /\ UNCHANGED <<h_config, h_wait, h_reachable, h_sleeps, notH>>

\* The fixed delay between two attempts.
ConnectSleep ==
    /\ h_pc = "sleep"
    /\ h_sleeps' = h_sleeps + 1
    /\ h_elapsed' = h_elapsed + h_config.retry_delay
    /\ h_pc' = "attempt"
    /\ UNCHANGED <<h_config, h_wait, h_reachable, h_attempts, h_result, notH>>

\* ------------------------------------------------------------------------
\* Initial states and specifications
\* ------------------------------------------------------------------------
InitWaitIdle ==
    /\ w_pc = "idle"
    /\ timeout = 0
    /\ now = 0
    /\ start_time = 0
    /\ task = [status |-> "running", exitstatus |-> None]
    /\ polls = <<>>
    /\ polltime = 0
    /\ w_result = <<>>

InitProvIdle ==
    /\ p_pc = "idle"
    /\ environ = <<>>
    /\ config = NoConfig
    /\ issued = <<>>
    /\ idx = 1
    /\ auth_key = <<>>
    /\ p_result = FALSE

InitExecIdle ==
    /\ x_pc = "idle"
    /\ x_args = <<>>
    /\ pct_command = <<>>
    /\ ssh = "none"
    /\ exit_code = -1
    /\ output = ""
    /\ error = ""
    /\ raised = ""
    /\ paramiko_level = "NOTSET"
    /\ original_level = "NOTSET"
    /\ x_result = <<>>

InitCreateIdle ==
    /\ c_pc = "idle"
    /\ c_opts = NoOpts
    /\ c_calls = <<>>
    /\ container_ip = ""
    /\ c_auth = "none"
    /\ c_session = "none"
    /\ c_exit = ""

InitCacheIdle ==
    /\ clock = 0
    /\ registry = {}
    /\ nodes_cache = {}
    /\ cache_timestamp = {}
    /\ k_last = NoCall
    /\ cached_before_delete = FALSE
    /\ cached_before_mutation = FALSE

InitFindIdle ==
    /\ f_pc = "idle"
    /\ f_nodes = <<>>
    /\ f_hostname = <<>>
    /\ f_vmid = {}
    /\ f_result = {}

InitRemoveIdle ==
    /\ r_pc = "idle"
    /\ r_force = FALSE
    /\ r_calls = <<>>
    /\ r_result = {}
    /\ r_raised = FALSE

InitDestroyIdle ==
    /\ d_pc = "idle"
    /\ d_opts = NoDestroyOpts
    /\ d_calls = <<>>
    /\ d_remove = "none"
    /\ d_declined = FALSE
    /\ d_exit = ""

InitVmidIdle ==
    /\ g_pc = "idle"
    /\ cluster = [n \in ClusterNodes |-> {}]
    /\ g_min_vmid = 0
    /\ g_listed = {}
    /\ g_result = 0
    /\ g_raised = FALSE

InitSelectIdle ==
    /\ s_requirement = NoRequirement
    /\ s_candidates = <<>>
    /\ s_selected = {}

InitLxcIdle ==
    /\ l_pc = "idle"
    /\ l_conf = <<>>
    /\ l_before = <<>>
    /\ l_idx = 1
    /\ l_result = {}
    /\ l_error = FALSE
    /\ l_count = 0

InitConnectIdle ==
    /\ h_pc = "idle"
    /\ h_config = SshConfigOfCreate
    /\ h_wait = FALSE
    /\ h_reachable = FALSE
    /\ h_attempts = 0
    /\ h_sleeps = 0
    /\ h_elapsed = 0
    /\ h_result = {}

InitWait ==
    /\ w_pc = "idle"
    /\ timeout = 0
    /\ now = 0
    /\ start_time = 0
    /\ task \in TaskStates
    /\ polls = <<>>
    /\ polltime = 0
    /\ w_result = <<>>
    /\ InitProvIdle /\ InitExecIdle /\ InitCreateIdle /\ InitCacheIdle
    /\ InitFindIdle
    /\ InitRemoveIdle
    /\ InitDestroyIdle
    /\ InitVmidIdle
    /\ InitSelectIdle
    /\ InitLxcIdle
    /\ InitConnectIdle

NextWait ==
    \/ \E n \in 0..MaxTimeout : WaitForTask(n)
    \/ WaitLoop
    \/ WaitPoll
    \/ WaitSleep
    \/ TaskStops

SpecWait == InitWait /\ [][NextWait]_vars

\* The client's own steps always go on (the thread is scheduled, sleep returns
\* and an HTTP call returns or raises); the server need not finish the task.
FairSpecWait == SpecWait /\ WF_vars(WaitStep)

InitProv ==
    /\ p_pc = "idle"
    /\ environ \in Environs
    /\ config = NoConfig
    /\ issued = <<>>
    /\ idx = 1
    /\ auth_key = <<>>
    /\ p_result = FALSE
    /\ InitWaitIdle /\ InitExecIdle /\ InitCreateIdle /\ InitCacheIdle
    /\ InitFindIdle
    /\ InitRemoveIdle
    /\ InitDestroyIdle
    /\ InitVmidIdle
    /\ InitSelectIdle
    /\ InitLxcIdle
    /\ InitConnectIdle

NextProv ==
    \/ \E cfg \in Configs : ProvisionContainerViaExec(cfg)
    \/ ProvUpdate
    \/ ProvPackages
    \/ ProvDocker
    \/ ProvTailscale
    \/ ProvTailscaleCmd

SpecProv == InitProv /\ [][NextProv]_vars

\* provision_container_via_exec with the exceptions of its try body.
NextProvTry ==
    \/ NextProv
    \/ ProvRaise

SpecProvTry == InitProv /\ [][NextProvTry]_vars

InitExec ==
    /\ x_pc = "idle"
    /\ x_args = <<>>
    /\ pct_command = <<>>
    /\ ssh = "none"
    /\ exit_code = -1
    /\ output = ""
    /\ error = ""
    /\ raised = ""
    /\ paramiko_level \in LogLevels
    /\ original_level = "NOTSET"
    /\ x_result = <<>>
    /\ InitWaitIdle /\ InitProvIdle /\ InitCreateIdle /\ InitCacheIdle
    /\ InitFindIdle
    /\ InitRemoveIdle
    /\ InitDestroyIdle
    /\ InitVmidIdle
    /\ InitSelectIdle
    /\ InitLxcIdle
    /\ InitConnectIdle

NextExec ==
    \/ \E v \in Vmids, c \in Commands : ExecContainerCommand(v, c)
    \/ ExecConnect
    \/ ExecCommand
    \/ ExecRecvExitStatus
    \/ ExecRead
    \/ ExecCloseAndReturn

SpecExec == InitExec /\ [][NextExec]_vars

InitCreate ==
    /\ InitCreateIdle
    /\ InitWaitIdle /\ InitProvIdle /\ InitExecIdle /\ InitCacheIdle
    /\ InitFindIdle
    /\ InitRemoveIdle
    /\ InitDestroyIdle
    /\ InitVmidIdle
    /\ s_requirement \in Requirements
    /\ s_candidates \in {l \in CandidateLists : Len(l) <= 1}
    /\ s_selected = {}
    /\ InitLxcIdle
    /\ InitConnectIdle

NextCreate ==
    \/ \E o \in Opts : Create(o)
    \/ CreateSelectNode
    \/ CreateDryRun
    \/ CreateConfirm
    \/ CreateContainer
    \/ CreateWait
    \/ CreateStart
    \/ CreateGate
    \/ CreateDiscoverIp
    \/ CreateConnect
    \/ CreateFallback
    \/ CreateProvision
    \/ CreateDisconnect

SpecCreate == InitCreate /\ [][NextCreate]_vars

\* A client just constructed (no cache), against any registry.
InitCache ==
    /\ clock = 0
    /\ registry \in Registries
    /\ nodes_cache = {}
    /\ cache_timestamp = {}
    /\ k_last = NoCall
    /\ cached_before_delete = FALSE
    /\ cached_before_mutation = FALSE
    /\ InitWaitIdle /\ InitProvIdle /\ InitExecIdle /\ InitCreateIdle
    /\ InitFindIdle
    /\ InitRemoveIdle
    /\ InitDestroyIdle
    /\ InitVmidIdle
    /\ InitSelectIdle
    /\ InitLxcIdle
    /\ InitConnectIdle

NextCache ==
    \/ \E u \in BOOL : ListNodes(u)
    \/ \E i \in DeviceIds : DeleteNode(i)
    \/ \E i \in DeviceIds : ExpireNodeKey(i)
    \/ \E i \in DeviceIds, a \in BOOL : SetAuthorized(i, a)
    \/ Tick

SpecCache == InitCache /\ [][NextCache]_vars

\* find_container_node on any listing, hostname and vmid.
InitFind ==
    /\ f_pc = "idle"
    /\ f_nodes \in Listings
    /\ f_hostname \in Hostnames
    /\ f_vmid \in VmidArgs
    /\ f_result = {}
    /\ InitWaitIdle /\ InitProvIdle /\ InitExecIdle /\ InitCreateIdle
    /\ InitCacheIdle
    /\ InitRemoveIdle
    /\ InitDestroyIdle
    /\ InitVmidIdle
    /\ InitSelectIdle
    /\ InitLxcIdle
    /\ InitConnectIdle

NextFind == Find

SpecFind == InitFind /\ [][NextFind]_vars

\* remove_container_node on a client just constructed, for any listing,
\* hostname, vmid and force.
InitRemove ==
    /\ InitRemoveIdle
    /\ f_pc = "idle"
    /\ f_nodes \in Listings
    /\ f_hostname \in Hostnames
    /\ f_vmid \in VmidArgs
    /\ f_result = {}
    /\ clock = 0
    /\ registry = RegistryOf(f_nodes)
    /\ nodes_cache = {}
    /\ cache_timestamp = {}
    /\ k_last = NoCall
    /\ cached_before_delete = FALSE
    /\ cached_before_mutation = FALSE
    /\ InitWaitIdle /\ InitProvIdle /\ InitExecIdle /\ InitCreateIdle
    /\ InitDestroyIdle
    /\ InitVmidIdle
    /\ InitSelectIdle
    /\ InitLxcIdle
    /\ InitConnectIdle

NextRemove ==
    \/ \E force \in BOOL : RemoveFind(force)
    \/ RemoveConfirm
    \/ RemoveDelete

SpecRemove == InitRemove /\ [][NextRemove]_vars

InitDestroy ==
    /\ InitDestroyIdle
    /\ InitWaitIdle /\ InitProvIdle /\ InitExecIdle /\ InitCreateIdle
    /\ InitCacheIdle /\ InitFindIdle /\ InitRemoveIdle
    /\ InitVmidIdle
    /\ InitSelectIdle
    /\ InitLxcIdle
    /\ InitConnectIdle

NextDestroy ==
    \/ \E o \in DestroyOpts : Destroy(o)
    \/ DestroyConnect
    \/ DestroyFind
    \/ DestroyConfirm
    \/ DestroyStop
    \/ DestroyTailscale
    \/ DestroyContainer
    \/ DestroyWait

SpecDestroy == InitDestroy /\ [][NextDestroy]_vars

\* get_next_vmid against any cluster.
InitVmid ==
    /\ g_pc = "idle"
    /\ cluster \in Clusters
    /\ g_min_vmid = 0
    /\ g_listed = {}
    /\ g_result = 0
    /\ g_raised = FALSE
    /\ InitWaitIdle /\ InitProvIdle /\ InitExecIdle /\ InitCreateIdle
    /\ InitCacheIdle /\ InitFindIdle /\ InitRemoveIdle /\ InitDestroyIdle
    /\ InitSelectIdle
    /\ InitLxcIdle
    /\ InitConnectIdle

NextVmid ==
    \/ \E m \in {min_vmid_default, min_vmid_default + MaxVmidSpan} : GetNextVmid(m)
    \/ VmidFallback

SpecVmid == InitVmid /\ [][NextVmid]_vars

\* Calls of configure_lxc_for_tailscale for one container, one after the other.
InitLxc ==
    /\ l_pc = "idle"
    /\ l_conf \in InitialConfs
    /\ l_before = <<>>
    /\ l_idx = 1
    /\ l_result = {}
    /\ l_error = FALSE
    /\ l_count = 0
    /\ InitWaitIdle /\ InitProvIdle /\ InitExecIdle /\ InitCreateIdle
    /\ InitCacheIdle /\ InitFindIdle /\ InitRemoveIdle /\ InitDestroyIdle
    /\ InitVmidIdle /\ InitSelectIdle
    /\ InitConnectIdle

NextLxc ==
    \/ ConfigureLxcForTailscale
    \/ LxcCheck
    \/ LxcAppend

SpecLxc == InitLxc /\ [][NextLxc]_vars

\* One connect to an address that never answers, or that may answer.
InitConnect ==
    /\ h_pc = "idle"
    /\ h_config = SshConfigOfCreate
    /\ h_wait = FALSE
    /\ h_reachable \in BOOLEAN
    /\ h_attempts = 0
    /\ h_sleeps = 0
    /\ h_elapsed = 0
    /\ h_result = {}
    /\ InitWaitIdle /\ InitProvIdle /\ InitExecIdle /\ InitCreateIdle
    /\ InitCacheIdle /\ InitFindIdle /\ InitRemoveIdle /\ InitDestroyIdle
    /\ InitVmidIdle /\ InitSelectIdle /\ InitLxcIdle

NextConnect ==
    \/ \E cfg \in SshConfigs, wait \in BOOLEAN : SshConnect(cfg, wait)
    \/ ConnectAttempt
    \/ ConnectSleep

SpecConnect == InitConnect /\ [][NextConnect]_vars

\* The node selection of the create command, for any requirement and any
\* list of candidates, when neither a configuration file nor --node is given.
SelectOpts == {o \in Opts : ~o.config /\ ~o.node /\ o.requirements /\ ~o.dry_run
                              /\ ~o.start /\ ~o.provision /\ ~o.has_provisioning
                              /\ ~o.static_ip /\ ~o.debug}

InitSelect ==
    /\ s_requirement \in Requirements
    /\ s_candidates \in CandidateLists
    /\ s_selected = {}
    /\ InitCreateIdle
    /\ InitWaitIdle /\ InitProvIdle /\ InitExecIdle
    /\ InitCacheIdle /\ InitFindIdle /\ InitRemoveIdle /\ InitDestroyIdle
    /\ InitVmidIdle
    /\ InitLxcIdle
    /\ InitConnectIdle

NextSelect ==
    \/ \E o \in SelectOpts : Create(o)
    \/ CreateSelectNode

SpecSelect == InitSelect /\ [][NextSelect]_vars

\* ------------------------------------------------------------------------
\* Claims about wait_for_task
\* ------------------------------------------------------------------------
Returned     == w_pc = "done"
IsStopped(r) == r.kind = "status" /\ r.status = "stopped"
IsError(r)   == r.kind = "error"
LastPoll     == polls[Len(polls)]
SawStoppedOK ==
    \E i \in 1..Len(polls) : IsStopped(polls[i]) /\ polls[i].exitstatus = "OK"
IsTimeoutResult == Returned /\ w_result = <<FALSE, MsgTimeout(timeout)>>

\* C1: the call returns (True, "Task completed successfully") if and only if
\* a poll observed status 'stopped' with exit status 'OK'; in every other
\* outcome the first component of the result is False.
C1_SuccessIffStoppedOK ==
    Returned =>
        /\ (w_result = <<TRUE, MsgSuccess>>) <=> SawStoppedOK
        /\ ~SawStoppedOK => w_result[1] = FALSE

C1_Witness ==
    Returned /\ w_result = <<TRUE, MsgSuccess>> /\ Len(polls) >= 2

\* C2: when no poll saw the task stopped and none failed, the call returns
\* (False, "Task timeout after N seconds") for its timeout argument N, and a
\* timeout result is returned only when at least N seconds have elapsed since
\* the call started.
C2_TimeoutOnlyAfterN ==
    /\ (Returned /\ \A i \in 1..Len(polls) : ~IsStopped(polls[i]) /\ ~IsError(polls[i]))
          => w_result = <<FALSE, MsgTimeout(timeout)>>
    /\ IsTimeoutResult => Elapsed >= timeout

C2_Witness ==
    IsTimeoutResult /\ timeout >= 2 /\ Len(polls) >= 2 /\ task.status = "running"

\* C3: every call terminates; with status polls taking no time it returns no
\* later than timeout + 1 seconds after it started (in general no later than
\* timeout + 1 seconds plus the time spent inside the polls), and it polls at
\* most `timeout` times.
C3_ReturnsWithinTimeoutPlusInterval ==
    /\ [](Returned /\ polltime = 0 => Elapsed <= timeout + 1)
    /\ [](Elapsed <= timeout + 1 + polltime)
    /\ [](Len(polls) <= timeout)
    /\ (w_pc \in {"loop", "poll", "sleep"}) ~> Returned

C3_Witness ==
    Returned /\ polltime = 0 /\ timeout >= 2 /\ Len(polls) = timeout
             /\ Elapsed = timeout

\* C4: a poll that observes 'stopped' with an exit status other than 'OK'
\* makes the call return (False, "Task failed: <exit status>"), and no poll
\* follows a poll that observed 'stopped'.
C4_FailedCarriesExitStatus ==
    \A i \in 1..Len(polls) :
        IsStopped(polls[i]) =>
            /\ i = Len(polls)
            /\ Returned
            /\ polls[i].exitstatus \in ExitStatuses \ {"OK"}
                  => w_result = <<FALSE, <<"Task failed: ", polls[i].exitstatus>>>>

C4_Witness ==
    /\ Returned
    /\ Len(polls) >= 2
    /\ IsStopped(LastPoll) /\ LastPoll.exitstatus = "TASK ERROR"
    /\ w_result = <<FALSE, <<"Task failed: ", "TASK ERROR">>>>

\* C5: a poll that fails with a transport error makes the call return
\* (False, <error text>) at once: no poll and no sleep follows it, whatever
\* is left of the timeout.
C5_ErrorReturnsImmediately ==
    \A i \in 1..Len(polls) :
        IsError(polls[i]) =>
            /\ i = Len(polls)
            /\ Returned
            /\ w_result = <<FALSE, <<polls[i].text>>>>

C5_Witness ==
    /\ Returned
    /\ Len(polls) >= 2
    /\ IsError(LastPoll)
    /\ Elapsed + 1 < timeout


\* ------------------------------------------------------------------------
\* Claims about provision_container_via_exec
\* ------------------------------------------------------------------------
IsPrefix(a, b) == Len(a) <= Len(b) /\ SubSeq(b, 1, Len(a)) = a

ProvReturned == p_pc = "done"

\* The step an exec call belongs to: its block and its description.
StepsOf(log) == [i \in 1..Len(log) |-> [block |-> log[i].block, desc |-> log[i].command.desc]]
Step(b, d)   == [block |-> b, desc |-> d]

\* The Docker sub-steps as the code lists them.
DockerSubSteps ==
    << "Install prerequisites", "Create keyrings directory", "Download Docker GPG key",
       "Set GPG key permissions", "Add Docker repository", "Update package lists",
       "Install Docker" >>

\* The Docker sub-steps as claim C9 lists them: prerequisites, keyring
\* directory, signing key, repository file, index refresh, package install.
ClaimedDockerSubSteps ==
    << "Install prerequisites", "Create keyrings directory", "Download Docker GPG key",
       "Add Docker repository", "Update package lists", "Install Docker" >>

\* The fixed order of a run for a configuration: index refresh; package
\* install if packages is non-empty; the Docker sub-steps if requested; mesh
\* install and connect if a key is present.
FixedOrder(cfg) ==
    <<Step("update", "Update package lists")>>
    \o (IF cfg.packages # <<>> THEN <<Step("packages", "Install packages")>> ELSE <<>>)
    \o (IF cfg.docker
          THEN [i \in 1..Len(DockerSubSteps) |-> Step("docker", DockerSubSteps[i])]
          ELSE <<>>)
    \o (IF cfg.tailscale # {} /\ (CHOOSE t \in cfg.tailscale : TRUE).auth_key # <<>>
          THEN <<Step("tailscale", "Install Tailscale"), Step("tailscale", "Connect to Tailscale")>>
          ELSE <<>>)

\* Every step but the initial index refresh is fatal.
FatalEntry(e)  == e.block # "update"
NoFatalFailure == \A i \in 1..Len(issued) : FatalEntry(issued[i]) => issued[i].ok
FailedLast(i)  == i = Len(issued) /\ ProvReturned /\ p_result = FALSE

\* The configured key is a reference ${VAR}.
KeyIsReference == config.tailscale # {} /\ IsEnvReference(ConfiguredKey(config))
ReferencedVar  == EnvVarOf(ConfiguredKey(config))
VarUnset       == ReferencedVar \notin DOMAIN environ
VarEmpty       == ReferencedVar \in DOMAIN environ /\ environ[ReferencedVar] = <<>>
\* Resolving the key is itself a fatal step of the mesh block.
KeyUnresolved  == KeyIsReference /\ (VarUnset \/ VarEmpty)

BlockEntries(b) == SelectSeq(issued, LAMBDA e : e.block = b)
DescsOf(log)    == [i \in 1..Len(log) |-> log[i].command.desc]

\* C6: a run returns True only if every fatal step of the applicable sequence
\* succeeded, and a failure of the non-fatal index refresh does not change
\* the result: a finished run returns True exactly when no fatal step failed.
C6_TrueIffFatalStepsSucceeded ==
    ProvReturned =>
        /\ p_result = TRUE =>
              /\ StepsOf(issued) = FixedOrder(config)
              /\ NoFatalFailure
              /\ ~KeyUnresolved
        /\ (NoFatalFailure /\ ~KeyUnresolved) => p_result = TRUE

C6_Witness ==
    /\ ProvReturned /\ p_result = TRUE
    /\ Len(issued) >= 3
    /\ ~issued[1].ok
    /\ \A i \in 2..Len(issued) : issued[i].ok

\* C7: the commands issued are always a prefix of the fixed order, and a
\* failed fatal step is the last command of the run, which returns False.
C7_PrefixOfFixedOrder ==
    /\ IsPrefix(StepsOf(issued), FixedOrder(config))
    /\ \A i \in 1..Len(issued) :
          (FatalEntry(issued[i]) /\ ~issued[i].ok) => FailedLast(i)

\* Docker's second sub-step fails after the package installation ran; the
\* mesh block, though configured, issues nothing.
C7_Witness ==
    /\ ProvReturned /\ p_result = FALSE
    /\ config.packages # <<>> /\ config.docker /\ config.tailscale # {}
    /\ Len(issued) = 4
    /\ issued[2].block = "packages" /\ issued[2].ok
    /\ issued[4].command.desc = "Create keyrings directory" /\ ~issued[4].ok

\* C8: a failed initial index refresh does not end the run: the next
\* applicable step is still executed; a failed package installation ends
\* the run; with an empty package list no installation command is issued.
C8_RefreshNonFatalInstallFatal ==
    /\ (ProvReturned /\ ~issued[1].ok) =>
          IF Len(FixedOrder(config)) = 1
            THEN p_result = TRUE
            ELSE IF FixedOrder(config)[2].block = "tailscale" /\ KeyUnresolved
                   THEN Len(issued) = 1 /\ p_result = FALSE
                   ELSE Len(issued) >= 2 /\ StepsOf(issued)[2] = FixedOrder(config)[2]
    /\ \A i \in 1..Len(issued) :
          (issued[i].block = "packages" /\ ~issued[i].ok) => FailedLast(i)
    /\ config.packages = <<>> => BlockEntries("packages") = <<>>
    /\ (config.packages # <<>> /\ Len(issued) >= 2) =>
          /\ issued[2].block = "packages"
          /\ issued[2].command.arg = config.packages

C8_Witness ==
    /\ ProvReturned
    /\ Len(issued) = 2
    /\ ~issued[1].ok
    /\ issued[2].block = "packages" /\ ~issued[2].ok

DockerRan(subSteps) ==
    /\ IsPrefix(DescsOf(BlockEntries("docker")), subSteps)
    /\ ~config.docker => BlockEntries("docker") = <<>>
    /\ (config.docker /\ (p_pc \in {"tailscale", "ts_cmds"} \/ (ProvReturned /\ p_result = TRUE)))
          => DescsOf(BlockEntries("docker")) = subSteps
    /\ \A i \in 1..Len(issued) :
          (issued[i].block = "docker" /\ ~issued[i].ok) => FailedLast(i)

\* C9 as claimed: the Docker sequence is exactly prerequisites, keyring
\* directory, signing key, repository file, index refresh, package install,
\* each fatal.
C9_ClaimedDockerSequence == DockerRan(ClaimedDockerSubSteps)

\* C9, amended: the Docker sequence is exactly prerequisites, keyring
\* directory, signing key download, signing key permissions, repository file,
\* index refresh, package install, in that order, and each of them is fatal
\* (the index refresh inside the sequence included).
C9_DockerSequence == DockerRan(DockerSubSteps)

C9_Witness ==
    /\ ProvReturned /\ p_result = TRUE
    /\ config.docker
    /\ ~issued[1].ok
    /\ DescsOf(BlockEntries("docker")) = DockerSubSteps

ConnectEntries ==
    SelectSeq(issued, LAMBDA e : e.block = "tailscale" /\ e.command.desc = "Connect to Tailscale")

MeshOrdered ==
    /\ IsPrefix(DescsOf(BlockEntries("tailscale")), <<"Install Tailscale", "Connect to Tailscale">>)
    /\ \A i \in 1..Len(issued) :
          (issued[i].block = "tailscale" /\ ~issued[i].ok) => FailedLast(i)

\* C10 as claimed: with a key ${VAR}, an unset VAR makes the run return False
\* with no mesh command issued, and a set VAR gives the key that is used;
\* install precedes connect and a failure of either returns False.
C10_ClaimedKeyResolution ==
    /\ KeyIsReference =>
          /\ VarUnset =>
                /\ ProvReturned => p_result = FALSE
                /\ BlockEntries("tailscale") = <<>>
          /\ ~VarUnset =>
                /\ \A i \in 1..Len(ConnectEntries) :
                      ConnectEntries[i].command.arg = environ[ReferencedVar]
                /\ (ProvReturned /\ NoFatalFailure) => Len(ConnectEntries) = 1
    /\ MeshOrdered

\* C10, amended: with a key ${VAR}, a VAR that is unset or set to the empty
\* string makes the run return False with no mesh command issued; a VAR set
\* to a non-empty value gives the key that is used; install precedes connect
\* and a failure of either returns False.
C10_KeyResolution ==
    /\ KeyIsReference =>
          /\ (VarUnset \/ VarEmpty) =>
                /\ ProvReturned => p_result = FALSE
                /\ BlockEntries("tailscale") = <<>>
          /\ ~(VarUnset \/ VarEmpty) =>
                /\ \A i \in 1..Len(ConnectEntries) :
                      ConnectEntries[i].command.arg = environ[ReferencedVar]
                /\ (ProvReturned /\ NoFatalFailure) => Len(ConnectEntries) = 1
    /\ MeshOrdered

C10_Witness ==
    /\ ProvReturned /\ p_result = TRUE
    /\ KeyIsReference /\ ~VarUnset /\ ~VarEmpty
    /\ Len(ConnectEntries) = 1
    /\ ConnectEntries[1].command.arg = environ[ReferencedVar]


\* C11: a run whose key names an unset environment variable returns failure
\* without having issued any remote command.
C11_FailsBeforeAnyCommand ==
    (ProvReturned /\ KeyIsReference /\ VarUnset) =>
        /\ p_result = FALSE
        /\ issued = <<>>


\* ------------------------------------------------------------------------
\* Claims about exec_container_command
\* ------------------------------------------------------------------------
ExecReturned == x_pc = "done"
ExecRaised   == raised # ""

\* C12: once the call has returned, no SSH session opened by it is open.
C12_ClosedOnEveryExit == ExecReturned => ssh # "open"

\* C14: without an exception the call returns (True, standard output) when
\* the exit code is 0 and (False, standard error) otherwise; it reports
\* success only for exit code 0; an exception in connecting or executing is
\* returned as (False, text of the exception).
C14_ResultFollowsExitCode ==
    ExecReturned =>
        /\ (~ExecRaised /\ exit_code = 0) => x_result = <<TRUE, output>>
        /\ (~ExecRaised /\ exit_code # 0) => x_result = <<FALSE, error>>
        /\ ExecRaised => x_result = <<FALSE, raised>>
        /\ x_result[1] = TRUE => (exit_code = 0 /\ ~ExecRaised)

C14_Witness ==
    /\ ExecReturned /\ ~ExecRaised
    /\ exit_code > 0
    /\ output = "ok" /\ error = "E: failed"
    /\ x_result = <<FALSE, "E: failed">>


\* ------------------------------------------------------------------------
\* Claims about the create command
\* ------------------------------------------------------------------------
CreateEnded == c_pc = "done"

\* C13: when the command has ended and a provisioning session had been
\* opened, disconnect was called on it: no session is left open.
C13_DisconnectOnEveryExit == CreateEnded => c_session # "open"


\* ------------------------------------------------------------------------
\* Claims about the listing cache
\* ------------------------------------------------------------------------
ListedLast  == k_last.op = "list"
ServedCache == ListedLast /\ k_last.kind = "hit"

\* C15: list_nodes answers from the cache only when asked to use it, a
\* listing is cached and that listing is less than 60 seconds old; in every
\* other case it sends a request; no listing served from the cache is older
\* than 60 seconds.
C15_CacheServedOnlyWhenFresh ==
    ListedLast =>
        /\ ServedCache <=>
               (k_last.use_cache /\ k_last.had_cache /\ k_last.age < 60)
        /\ ~ServedCache => k_last.kind \in {"fetched", "raised"}
        /\ ServedCache => k_last.age <= 60

C15_Witness ==
    /\ ListedLast /\ k_last.use_cache /\ k_last.had_cache
    /\ k_last.age = 60
    /\ k_last.kind = "fetched"

\* C16: after a successful delete_node the cache and its timestamp are
\* unset, a list_nodes that finds no cache sends a request, and no listing
\* served from the cache was cached before a successful delete.
C16_DeleteEmptiesCache ==
    /\ (k_last.op = "delete" /\ k_last.ok) =>
           (nodes_cache = {} /\ cache_timestamp = {})
    /\ (ListedLast /\ ~k_last.had_cache) => ~ServedCache
    /\ ServedCache => ~k_last.predates_delete

C16_Witness ==
    /\ k_last.op = "delete" /\ k_last.ok
    /\ k_last.had_cache /\ k_last.age >= 0 /\ k_last.age < cache_ttl
    /\ nodes_cache = {}

\* C17: no listing served from the cache was cached before a mutating call
\* (delete_node, expire_node_key, set_authorized) that has since returned.
C17_NoListingFromBeforeAMutation ==
    ServedCache => ~k_last.predates_mutation


\* ------------------------------------------------------------------------
\* Claims about find_container_node
\* ------------------------------------------------------------------------
FindDone == f_pc = "done"

\* Step 1 of the matching rule: the name equals, case-insensitively, the
\* entry's bare name or its fully-qualified name.
ExactMatch(node, name) ==
    \/ Lower(node.hostname) = Lower(name)
    \/ Lower(node.name) = Lower(name)

\* Some entry of the listing matches the name by step 1 or step 2.
AnyNodeMatches(name) ==
    \E i \in 1..Len(f_nodes) : NodeMatches(f_nodes[i], Lower(name))

VmidText == IntToStr(CHOOSE x \in f_vmid : TRUE)

\* hostname + '-ct', hostname + '-<vmid>', hostname + '-ct<vmid>'
ClaimedCandidates ==
    IF f_vmid = {}
      THEN << f_hostname \o <<"-", "c", "t">> >>
      ELSE << f_hostname \o <<"-", "c", "t">>,
              f_hostname \o <<"-">> \o VmidText,
              f_hostname \o <<"-", "c", "t">> \o VmidText >>

\* -<vmid>, -ct<vmid>, -ct, ct<vmid>; '-ct' with or without a vmid
ClaimedPatterns ==
    IF f_vmid = {}
      THEN << <<"-", "c", "t">> >>
      ELSE << <<"-">> \o VmidText, <<"-", "c", "t">> \o VmidText,
              <<"-", "c", "t">>, <<"c", "t">> \o VmidText >>

Stripped(p) == SubSeq(f_hostname, 1, Len(f_hostname) - Len(p))

EarlierStepsFoundNothing ==
    /\ ~AnyNodeMatches(f_hostname)
    /\ \A i \in 1..Len(ClaimedCandidates) : ~AnyNodeMatches(ClaimedCandidates[i])

\* C18: when some entry of the listing matches the hostname exactly, find
\* returns an entry that matches it exactly.
C18_ExactMatchWins ==
    (FindDone /\ \E i \in 1..Len(f_nodes) : ExactMatch(f_nodes[i], f_hostname))
        => \E r \in f_result : ExactMatch(r, f_hostname)

\* C19: when nothing matches the hostname itself, find returns an entry
\* matching the first of hostname-ct, hostname-<vmid>, hostname-ct<vmid>
\* (the last two only with a vmid) that any entry matches.
C19_SuffixCandidatesInOrder ==
    (FindDone /\ ~AnyNodeMatches(f_hostname)) =>
        \A i \in 1..Len(ClaimedCandidates) :
            ( /\ AnyNodeMatches(ClaimedCandidates[i])
              /\ \A j \in 1..(i - 1) : ~AnyNodeMatches(ClaimedCandidates[j]) )
            => /\ f_result # {}
               /\ \A r \in f_result : NodeMatches(r, Lower(ClaimedCandidates[i]))

\* find("w", vmid=7) against a listing of "w-ct7" and then "W-ct" returns
\* the "W-ct" entry.
C19_Witness ==
    /\ FindDone
    /\ f_hostname = <<"w">> /\ f_vmid = {7}
    /\ Len(f_nodes) = 2 /\ f_nodes[1].id = "e" /\ f_nodes[2].id = "c"
    /\ \E r \in f_result : r.id = "c"

\* C20: when the earlier steps find nothing and the hostname ends with a
\* pattern whose removal leaves a name that some entry matches, find returns
\* an entry matching the hostname with one of its patterns removed; '-ct'
\* counts as a pattern with and without a vmid.
C20_StripsPattern ==
    (FindDone /\ EarlierStepsFoundNothing) =>
        \A i \in 1..Len(ClaimedPatterns) :
            ( /\ EndsWith(f_hostname, ClaimedPatterns[i])
              /\ AnyNodeMatches(Stripped(ClaimedPatterns[i])) )
            => \E k \in 1..Len(ClaimedPatterns) :
                   /\ EndsWith(f_hostname, ClaimedPatterns[k])
                   /\ f_result # {}
                   /\ \A r \in f_result :
                          NodeMatches(r, Lower(Stripped(ClaimedPatterns[k])))


\* The matching rule: the candidate name equals, case-insensitively, the
\* entry's name, its hostname, or the part of either before the first '.'.
RuleMatch(node, name) ==
    Lower(name) \in { Lower(node.name), Lower(node.hostname),
                      BeforeDot(Lower(node.name)), BeforeDot(Lower(node.hostname)) }

\* The candidate names: the hostname, the hostname plus a suffix pattern, the
\* hostname with a pattern it ends with stripped.
CandidateNames ==
    {f_hostname}
    \cup {ClaimedCandidates[i] : i \in 1..Len(ClaimedCandidates)}
    \cup {Stripped(ClaimedPatterns[i]) :
              i \in {k \in 1..Len(ClaimedPatterns) :
                         EndsWith(f_hostname, ClaimedPatterns[k])}}

ListedNodes == {f_nodes[i] : i \in 1..Len(f_nodes)}

\* C21: find returns none when no entry matches any candidate name by the
\* matching rule, and an entry it returns is an entry of the listing that
\* matches one of the candidate names by the rule.
C21_ResultSatisfiesRule ==
    FindDone =>
        /\ f_result \subseteq ListedNodes
        /\ \A r \in f_result : \E c \in CandidateNames : RuleMatch(r, c)
        /\ (\A n \in ListedNodes : \A c \in CandidateNames : ~RuleMatch(n, c))
               => f_result = {}

\* find("wct7", vmid=7) returns an entry matching the stripped name "w".
C21_Witness ==
    /\ FindDone
    /\ f_hostname = <<"w", "c", "t", "7">> /\ f_vmid = {7}
    /\ \E r \in f_result : RuleMatch(r, <<"w">>)


\* ------------------------------------------------------------------------
\* Claims about remove_container_node
\* ------------------------------------------------------------------------
RemoveReturned == r_pc = "done" /\ ~r_raised
NoEntryFound   == f_pc = "done" /\ f_result = {}
Prompts        == {i \in 1..Len(r_calls) : r_calls[i][1] = "confirm"}
Deletes        == {i \in 1..Len(r_calls) : r_calls[i][1] = "delete"}

\* C22: when no entry matches, remove returns True, shows no prompt, issues
\* no delete call and leaves the registry as it was, with and without force.
C22_NotFoundIsSuccess ==
    (RemoveReturned /\ NoEntryFound) =>
        /\ r_result = {TRUE}
        /\ r_calls = <<>>
        /\ registry = RegistryOf(f_nodes)

C22_Witness ==
    /\ RemoveReturned /\ NoEntryFound
    /\ ~r_force
    /\ f_nodes # <<>>
    /\ r_result = {TRUE}

\* C23: without force a delete call comes only after a prompt answered yes;
\* a declined prompt ends the call with False, no delete call and the
\* registry unchanged; with force no prompt is shown and the entry found is
\* the target of a delete call.
C23_DeleteOnlyAfterConfirmation ==
    /\ ~r_force =>
           \A i \in Deletes :
               \E j \in Prompts : j < i /\ r_calls[j] = <<"confirm", r_calls[i][2], "yes">>
    /\ (\E j \in Prompts : r_calls[j][3] = "no") =>
           /\ r_pc = "done" /\ r_result = {FALSE}
           /\ Deletes = {}
           /\ registry = RegistryOf(f_nodes)
    /\ r_force => Prompts = {}
    /\ (r_force /\ r_pc = "done" /\ ~r_raised /\ f_result # {}) =>
           \E i \in Deletes : r_calls[i][2] = FoundId

C23_Witness ==
    /\ r_pc = "done" /\ ~r_force
    /\ Len(r_calls) = 1 /\ r_calls[1][1] = "confirm" /\ r_calls[1][3] = "no"
    /\ r_result = {FALSE}

\* C24: a delete call that fails with a transport error makes remove return
\* False, not raise; remove returns True only when no entry was found or the
\* delete call succeeded.
C24_DeleteErrorIsFalse ==
    /\ (r_pc = "done" /\ \E i \in Deletes : r_calls[i][3] = "failed") =>
           (r_result = {FALSE} /\ ~r_raised)
    /\ (r_pc = "done" /\ r_result = {TRUE}) =>
           (NoEntryFound \/ \E i \in Deletes : r_calls[i][3] = "ok")

C24_Witness ==
    /\ r_pc = "done" /\ ~r_raised
    /\ Deletes # {}
    /\ r_calls[Len(r_calls)] = <<"delete", FoundId, "failed">>
    /\ r_result = {FALSE}
    /\ registry = RegistryOf(f_nodes)


\* ------------------------------------------------------------------------
\* Claims about the destroy command
\* ------------------------------------------------------------------------
DestroyEnded == d_pc = "done"
DPositions(c) == {i \in 1..Len(d_calls) : d_calls[i] = c}
DestroyIssued == DPositions("destroy_container") # {}

\* C25: every registry reconciliation step (the remove call and its delete)
\* comes before the destroy-container call, and the wait on the destroy task
\* comes only after a destroy-container call.
C25_ReconcileDestroyWait ==
    /\ \A i \in DPositions("destroy_container") :
           \A j \in DPositions("remove_container_node") \cup DPositions("registry_delete") :
               j < i
    /\ \A j \in DPositions("wait_destroy_task") :
           \E i \in DPositions("destroy_container") : i < j

C25_Witness ==
    /\ DestroyEnded
    /\ DPositions("registry_delete") # {}
    /\ DPositions("wait_destroy_task") # {}
    /\ d_exit = "exit0"

\* C26: when remove returned False or raised and the operator did not
\* decline to continue, the command has issued the destroy-container call
\* by the time it ends; with force the operator is never asked.
C26_ReconcileFailureNotFatal ==
    /\ (DestroyEnded /\ d_remove \in {"False", "raised"} /\ ~d_declined)
           => DestroyIssued
    /\ (d_opts.force /\ d_remove # "none") => ~d_declined

C26_Witness ==
    /\ DestroyEnded
    /\ d_remove = "raised"
    /\ ~d_opts.force
    /\ DestroyIssued


CPositions(S) == {i \in 1..Len(c_calls) : c_calls[i] \in S}
SelectionCalls    == {"select_node", "prompt_for_node"}
CreationWaits     == {"wait_create_task:True", "wait_create_task:False"}
StartAndProvision == {"start_container", "wait_start_task", "get_container",
                      "connect", "provision", "disconnect"}

\* C27: node selection comes before the create-container call, that call
\* before the wait on its task, and every start or provisioning call after a
\* wait that reported success; a wait that reported failure ends the
\* command at once with exit status 1.
C27_CreateOrder ==
    /\ \A i \in CPositions(SelectionCalls) :
           \A j \in CPositions({"create_container"}) : i < j
    /\ \A j \in CPositions(CreationWaits) :
           \E i \in CPositions({"create_container"}) : i < j
    /\ \A k \in CPositions(StartAndProvision) :
           \E j \in CPositions({"wait_create_task:True"}) : j < k
    /\ CPositions({"wait_create_task:False"}) # {} =>
           /\ c_pc = "done" /\ c_exit = "exit1"
           /\ c_calls[Len(c_calls)] = "wait_create_task:False"

C27_Witness ==
    /\ CreateEnded
    /\ CPositions({"select_node"}) # {}
    /\ CPositions({"wait_create_task:True"}) # {}
    /\ CPositions({"start_container"}) # {}
    /\ CPositions({"provision"}) # {}


SelectionDone == c_pc \in {"dryrun", "done"} /\ c_opts.requirements
                 /\ ~c_opts.config /\ ~c_opts.node
ListedCandidates == {s_candidates[i] : i \in 1..Len(s_candidates)}

\* The four constraints: free cores, free memory, storage pool, bridge.
MeetsAll(c) ==
    /\ c.total_cores - c.used_cores >= s_requirement.cores
    /\ c.total_memory_mb - c.used_memory_mb >= s_requirement.memory_mb
    /\ s_requirement.storage_pool \in c.storage_pools
    /\ s_requirement.network_bridge \in c.bridges

\* score(c1) <= score(c2), the scores being (CPU ratio + memory ratio) / 2
ScoreAtMost(c1, c2) == ScoreNum(c1) * ScoreDen(c2) <= ScoreNum(c2) * ScoreDen(c1)

RECURSIVE Reversed(_)
Reversed(l) == IF l = <<>> THEN <<>> ELSE Append(Reversed(Tail(l)), Head(l))

\* C29: select returns none when no candidate meets all four constraints,
\* a node it returns is a candidate that meets all four, and after a none
\* result the create command has prompted for a node (it ends with exit
\* status 1 only if the prompt gave none either).
C29_SelectFiltersAndFallsBack ==
    SelectionDone =>
        /\ (\A c \in ListedCandidates : ~MeetsAll(c)) => s_selected = {}
        /\ \A r \in s_selected : r \in ListedCandidates /\ MeetsAll(r)
        /\ s_selected = {} =>
               c_calls = <<"select_node", "prompt_for_node">>
        /\ s_selected # {} => (c_pc = "dryrun" /\ c_calls = <<"select_node">>)

C29_Witness ==
    /\ SelectionDone
    /\ Len(s_candidates) = MaxCandidates
    /\ s_selected = {}
    /\ c_pc = "dryrun"
    /\ c_calls = <<"select_node", "prompt_for_node">>

\* C30: the node select returns has the minimum score among the candidates
\* meeting the constraints, among those of minimum score the smallest name,
\* and the same node is returned for the list in reverse order.
C30_LeastLoadedDeterministic ==
    SelectionDone =>
        /\ (\E c \in ListedCandidates : MeetsAll(c)) => s_selected # {}
        /\ \A r \in s_selected :
               \A c \in ListedCandidates :
                   (MeetsAll(c) /\ c # r) =>
                       /\ ScoreAtMost(r, c)
                       /\ ScoreAtMost(c, r) => LexLess(r.name, c.name)
        /\ SelectNode(s_requirement, Reversed(s_candidates)) = s_selected

\* Two candidates of equal score, the one with the greater name first in
\* the list: the other one is returned.
C30_Witness ==
    /\ SelectionDone
    /\ Len(s_candidates) = 2
    /\ s_candidates[1].name = <<"b">> /\ s_candidates[2].name = <<"a">>
    /\ ScoreAtMost(s_candidates[1], s_candidates[2])
    /\ ScoreAtMost(s_candidates[2], s_candidates[1])
    /\ \E r \in s_selected : r.name = <<"a">>


\* ------------------------------------------------------------------------
\* Claims about the first poll of wait_for_task
\* ------------------------------------------------------------------------
\* C32: a call polls the task status at least once before it reports a
\* timeout, for every timeout value including 0; a task already stopped with
\* exit status 'OK' at the call is reported as success, not as a timeout.
C32_PollsBeforeTimeout ==
    IsTimeoutResult => Len(polls) >= 1


\* ------------------------------------------------------------------------
\* Claims about the cache fields
\* ------------------------------------------------------------------------
\* C33: in every reachable state of a client the cached listing and its
\* timestamp are both unset or both set.
C33_ListingAndTimestampTogether ==
    (nodes_cache = {}) <=> (cache_timestamp = {})

\* A listing was cached, time passed and a delete succeeded: both unset.
C33_Witness ==
    /\ k_last.op = "delete" /\ k_last.ok /\ k_last.had_cache
    /\ k_last.age >= cache_ttl
    /\ nodes_cache = {} /\ cache_timestamp = {}

RaisedLast == k_last.op = "list" /\ k_last.kind = "raised" /\ ~k_last.ok

\* C34: a list_nodes call whose request fails raises and leaves the cached
\* listing and its timestamp as they were; the cache is set only by a call
\* whose request succeeded, to the listing that request returned.
C34_FailedListingKeepsCache ==
    [][/\ RaisedLast' => UNCHANGED <<nodes_cache, cache_timestamp>>
       /\ (nodes_cache' # nodes_cache /\ nodes_cache' # {}) =>
              /\ k_last'.op = "list" /\ k_last'.kind = "fetched" /\ k_last'.ok
              /\ nodes_cache' = {Listing(registry)}
              /\ cache_timestamp' = {clock}]_vars

\* A refresh of a stale cache failed: the stale listing is still cached.
C34_Witness ==
    /\ RaisedLast /\ k_last.had_cache /\ k_last.age >= cache_ttl
    /\ nodes_cache # {} /\ CacheAge = k_last.age


\* ------------------------------------------------------------------------
\* Claims about the delete request of remove_container_node
\* ------------------------------------------------------------------------
FoundIds == {n.id : n \in f_result}

\* C35: one call issues at most one registry delete request, its target is
\* the id of the entry find_container_node returned in that call, and no
\* other entry leaves the registry.
C35_OneDeleteOfTheEntryFound ==
    /\ Cardinality(Deletes) <= 1
    /\ \A i \in Deletes : f_pc = "done" /\ r_calls[i][2] \in FoundIds
    /\ \A d \in RegistryOf(f_nodes) \ registry :
           /\ d.id \in FoundIds
           /\ \E i \in Deletes : r_calls[i] = <<"delete", d.id, "ok">>

\* The entry found is the second of two listed; only it was deleted.
C35_Witness ==
    /\ r_pc = "done" /\ Len(f_nodes) = 2
    /\ f_nodes[1].id # f_nodes[2].id
    /\ FoundIds = {f_nodes[2].id}
    /\ \E i \in Deletes : r_calls[i] = <<"delete", f_nodes[2].id, "ok">>
    /\ {d.id : d \in registry} = {f_nodes[1].id}


\* ------------------------------------------------------------------------
\* Claims about what the destroy command changes
\* ------------------------------------------------------------------------
MutatingCalls == {"stop_container", "registry_delete", "destroy_container"}
DMutations == {i \in 1..Len(d_calls) : d_calls[i] \in MutatingCalls}

\* The command ended where the vmid is looked up.
EndedAtFind ==
    DestroyEnded /\ d_calls = <<"test_connection", "list_containers">>
\* The operator declined the initial confirmation.
DeclinedDestroy ==
    DestroyEnded /\ d_exit = "return" /\ ~d_declined /\ ~d_opts.force

EntryDeleted ==
    d_remove = "True" /\ DPositions("registry_delete") # {}

\* C37: a command that has deleted a registry entry does not end, by return,
\* cancellation or exit, before it has issued the destroy-container call.
C37_DeletedEntryThenDestroy ==
    /\ (DestroyEnded /\ EntryDeleted) => DestroyIssued
    /\ EntryDeleted => ~d_declined
    /\ \A i \in DPositions("destroy_container") :
           \A j \in DPositions("registry_delete") : j < i

C37_Witness ==
    /\ DestroyEnded /\ EntryDeleted /\ ~d_opts.force
    /\ DestroyIssued

StopNotSucceeded ==
    \E i \in 1..Len(d_calls) :
        d_calls[i] \in {"warn_failed_to_stop", "warn_could_not_stop"}

\* C38: without force, when stopping the container did not succeed (the stop
\* task failed or timed out, or the stop call raised), a registry delete or
\* destroy-container call is issued only after the operator confirmed
\* continuing.
C38_FailedStopNeedsConfirmation ==
    (~d_opts.force /\ StopNotSucceeded) =>
        \A i \in DPositions("registry_delete") \cup DPositions("destroy_container") :
            \E j \in DPositions("continue:yes") : j < i


\* ------------------------------------------------------------------------
\* Claims about the exceptions of provision_container_via_exec
\* ------------------------------------------------------------------------
ProvRaised == p_pc = "raised"

\* C40: provision_container_via_exec never raises: the caller always gets a
\* boolean. A failed fatal command or an exception in any step gives False,
\* and True is returned only when no fatal command failed.
C40_ProvisionNeverRaises ==
    /\ ~ProvRaised
    /\ p_result \in BOOLEAN
    /\ (ProvReturned /\ p_result = TRUE) => (NoFatalFailure /\ ~KeyUnresolved)
    /\ (ProvReturned /\ ~NoFatalFailure) => p_result = FALSE

\* An exception after a failed index refresh and a successful package
\* installation: no fatal command failed, the key resolves, False returned.
C40_Witness ==
    /\ ProvReturned /\ p_result = FALSE
    /\ NoFatalFailure /\ ~KeyUnresolved
    /\ Len(issued) = 2 /\ ~issued[1].ok /\ issued[2].ok


\* ------------------------------------------------------------------------
\* Claims about configure_lxc_for_tailscale
\* ------------------------------------------------------------------------
Occurrences(line) == Cardinality({i \in 1..Len(l_conf) : l_conf[i] = line})
MappingPresent(conf) == \E i \in 1..Len(conf) : conf[i] = ConfigLines[3]

\* C39: after any sequence of calls for the same container, calls that
\* failed after appending only some lines included, the file holds each of
\* the three lines at most once; a call made when the mapping is present
\* appends nothing and, unless it caught an exception, returns True.
C39_ConfigureIdempotent ==
    /\ \A k \in 1..Len(ConfigLines) : Occurrences(ConfigLines[k]) <= 1
    /\ (l_count > 0 /\ MappingPresent(l_before)) =>
           /\ l_conf = l_before
           /\ (l_pc = "done" /\ ~l_error) => l_result = {TRUE}


\* ------------------------------------------------------------------------
\* Claims about the reachability retry
\* ------------------------------------------------------------------------
ConnectReturned == h_pc = "done"

\* C31: a connect that waits for reachability, to an address that never
\* answers, makes exactly retry_attempts attempts with retry_delay between
\* two of them before it reports failure (3 attempts with delay 2 take at
\* least 4 seconds; the create command's policy is 12 attempts with delay
\* 5); a connect that does not wait makes a single attempt.
C31_ExactlyRetryAttempts ==
    /\ h_attempts <= (IF h_wait THEN h_config.retry_attempts ELSE 1)
    /\ h_sleeps = (IF h_attempts = 0 THEN 0
                   ELSE IF h_pc = "attempt" THEN h_attempts ELSE h_attempts - 1)
    /\ h_elapsed >= h_sleeps * h_config.retry_delay
    /\ (ConnectReturned /\ ~h_reachable) =>
           /\ h_result = {FALSE}
           /\ h_wait => /\ h_attempts = h_config.retry_attempts
                        /\ h_elapsed >= (h_config.retry_attempts - 1) * h_config.retry_delay
                        /\ h_config.retry_attempts = 3 /\ h_config.retry_delay = 2
                               => h_elapsed >= 4
           /\ ~h_wait => h_attempts = 1 /\ h_sleeps = 0
    /\ SshConfigOfCreate.retry_attempts = 12 /\ SshConfigOfCreate.retry_delay = 5

\* The create command's policy against an address that never answers.
C31_Witness ==
    /\ ConnectReturned /\ ~h_reachable /\ h_wait
    /\ h_config = SshConfigOfCreate
    /\ h_attempts = 12 /\ h_sleeps = 11 /\ h_elapsed >= 55
    /\ h_result = {FALSE}

=============================================================================
